---- MODULE Spec2Model ----
(***************************************************************************)
(* The word animation engine of Turtle_stitch: the requestAnimationFrame   *)
(* driven state machine that reveals the glyphs of a word point by point.  *)
(* Two versions of the program are modelled over the same variables:       *)
(*   "part_000"  - src/unnamed/part_000 (resizable canvas, cancellable     *)
(*                 animation frame, redrawCanvasContent)                   *)
(*   "script.js" - src/script.js (fixed 600 px canvas, no cancellation)    *)
(* The variable version, fixed by Init, says which program is running.     *)
(*                                                                         *)
(* Every JavaScript function that writes globals is an operator from a     *)
(* program state (a record with one field per variable) to the state it    *)
(* leaves; an event handler is the composition the code makes of them and  *)
(* an action commits the handler's final state.                            *)
(*                                                                         *)
(* Numbers.  Glyph coordinates are decimals with at most three places; the *)
(* table stores them as integers in units of 1/CoordDen.  A point that     *)
(* interpolateSegment(segment, steps) produces is an integer pair in units *)
(* of 1/(CoordDen * steps).  Scales and pixel offsets are exact rationals  *)
(* <<numerator, denominator>> in lowest terms, where the code computes in  *)
(* IEEE doubles: the model leaves the rounding of doubles out.             *)
(*                                                                         *)
(* Time.  The program only ever uses timestamp - lastTimestamp, compared   *)
(* with and reduced modulo its animation interval, so the pair             *)
(* (clock, lastTimestamp) is kept up to a common translation, and an       *)
(* elapsed time of two intervals or more is reduced by multiples of the    *)
(* interval: see Rebase.                                                   *)
(*                                                                         *)
(* Handles.  The program only tests a requestAnimationFrame handle against *)
(* null and hands it to cancelAnimationFrame, so handles are kept up to    *)
(* renaming: see Renumber.                                                 *)
(***************************************************************************)
EXTENDS Integers, Sequences, FiniteSets, TLC

VARIABLES
  version,                        \* which program runs
  wordToAnimate,                  \* sequence of characters
  currentWordCharIndex,           \* 0-based, as in the code
  processedPointsForCurrentChar,  \* sequence of points
  totalFramesForCurrentChar,
  currentFrame,                   \* the reveal cursor, 0-based
  animationActive,
  animationFrameId,               \* 0 stands for null (part_000 only)
  completedCharacters,            \* sequence of [char, processedPoints, xOffset]
  lastTimestamp,
  currentCanvasWidth,
  currentCanvasHeight,
  baseScale,
  wordScaleFactor,
  centerXOffsetPixels,
  centerYOffsetPixels,
  message,                        \* messageDiv.textContent
  clock,                          \* the host's monotonic clock, ms
  rafQueue,                       \* animation frame callbacks requested for the next frame
  frameCallbacks,                 \* callbacks of the frame being run, not yet called
  canvas,                         \* strokes on the drawing surface since it was last cleared
  lastEvent,                      \* history: the handler or callback that ran last
  rendered,                       \* history: the prefix of the current character that the
                                  \* last effective tick since the submission has drawn
  effectiveTicks,                 \* history: the effective ticks that found a character to
                                  \* animate, since the submission
  sharedWithActive,               \* the places of the completed records whose processedPoints
                                  \* is the very array that processedPointsForCurrentChar
                                  \* refers to
  lastFinished,                   \* history: the word and the completed characters that the
                                  \* latest submission found finished, if it submitted
                                  \* the same word again
  evaluated,                      \* the function call that FunctionSpec has evaluated
  extraGlyphs,                    \* characters that the glyph table has besides those of
                                  \* the source, each with an empty list of segments
                                  \* (none in Spec and FunctionSpec)
  sinceSubmission                 \* history: the time since the latest submission (since
                                  \* the load before the first), ms; kept by TimedSpec
                                  \* only, NotTimed in the other specifications

vars == << version, wordToAnimate, currentWordCharIndex, processedPointsForCurrentChar,
           totalFramesForCurrentChar, currentFrame, animationActive, animationFrameId,
           completedCharacters, lastTimestamp, currentCanvasWidth, currentCanvasHeight,
           baseScale, wordScaleFactor, centerXOffsetPixels, centerYOffsetPixels,
           message, clock, rafQueue, frameCallbacks, canvas, lastEvent, rendered,
           effectiveTicks, lastFinished, sharedWithActive, evaluated, extraGlyphs,
           sinceSubmission >>

-----------------------------------------------------------------------------
(* Bounds of the model *)

\* Each glyph is animated over its first MaxSegments segments.
MaxSegments == 1

\* At most MaxPending animation frame callbacks are requested at a time.
MaxPending == 3

\* FunctionSpec calls interpolateSegment with 1..MaxSteps steps and with the default.
MaxSteps == 4

\* FunctionSpec scales words of 1..MaxWordLength characters and submits texts of up
\* to MaxWordLength characters.
MaxWordLength == 4

\* TimedSpec follows a submission for MaxAge ms.
MaxAge == 40

-----------------------------------------------------------------------------
(* Program constants *)

CHAR_WIDTH_DATA_UNITS == 7

ANIMATION_INTERVAL_MS == 10

script_ANIMATION_INTERVAL_MS == 20

\* interpolateSegment(segment, steps = 20)
DEFAULT_STEPS == 20

CANVAS_SIZE == 600

\* Glyph coordinates are stored in units of 1/CoordDen (0.375 is 15, 3.725 is 149).
CoordDen == 40

\* X_MIN = Y_MIN = -0.5, X_MAX = Y_MAX = 10
X_MIN == << -1, 2 >>

X_MAX == << 10, 1 >>

Y_MIN == << -1, 2 >>

Y_MAX == << 10, 1 >>

SIZE_MULTIPLIER == << 9, 5 >>

\* The 0.95 margin factor of the fit factors
FIT_MARGIN == << 19, 20 >>

-----------------------------------------------------------------------------
(* Exact rational arithmetic *)

Abs(x) == IF x < 0 THEN -x ELSE x

RECURSIVE GCD(_, _)
GCD(a, b) == IF b = 0 THEN a ELSE GCD(b, a % b)

\* The number n / d.  What a division by zero yields has denominator 0: << 1, 0 >>
\* is Infinity, << -1, 0 >> is -Infinity and << 0, 0 >> is NaN.
Rat(n, d) ==
  LET g == GCD(Abs(n), Abs(d))
      sgn == IF d < 0 THEN -1 ELSE 1
  IN IF g = 0 THEN << 0, 0 >> ELSE << sgn * (n \div g), sgn * (d \div g) >>

\* Number.isFinite
IsFinite(a) == a[2] # 0

IsNaN(a) == a = << 0, 0 >>

RInt(n) == << n, 1 >>

\* The sum, over the least common denominator to keep the integers small.
RAdd(a, b) ==
  LET g == GCD(a[2], b[2])
  IN IF g = 0 THEN Rat(a[1] * b[2] + b[1] * a[2], a[2] * b[2])
     ELSE Rat(a[1] * (b[2] \div g) + b[1] * (a[2] \div g), (a[2] \div g) * b[2])

RSub(a, b) ==
  LET g == GCD(a[2], b[2])
  IN IF g = 0 THEN Rat(a[1] * b[2] - b[1] * a[2], a[2] * b[2])
     ELSE Rat(a[1] * (b[2] \div g) - b[1] * (a[2] \div g), (a[2] \div g) * b[2])

RMul(a, b) == Rat(a[1] * b[1], a[2] * b[2])

RDiv(a, b) == Rat(a[1] * b[2], a[2] * b[1])

RLess(a, b) ==
  LET g == GCD(a[2], b[2])
  IN IF g = 0 THEN a[1] * b[2] < b[1] * a[2]
     ELSE a[1] * (b[2] \div g) < b[1] * (a[2] \div g)

RLeq(a, b) ==
  LET g == GCD(a[2], b[2])
  IN IF g = 0 THEN a[1] * b[2] <= b[1] * a[2]
     ELSE a[1] * (b[2] \div g) <= b[1] * (a[2] \div g)

\* Faulty variant of RMin: the larger of the two.
RMin_picksLarger(a, b) == IF RLess(a, b) THEN b ELSE a

\* Math.min
RMin(a, b) ==
  IF IsNaN(a) \/ IsNaN(b) THEN << 0, 0 >> ELSE IF RLess(b, a) THEN b ELSE a

\* Math.max
RMax(a, b) ==
  IF IsNaN(a) \/ IsNaN(b) THEN << 0, 0 >> ELSE IF RLess(a, b) THEN b ELSE a

DATA_RANGE_X == RSub(X_MAX, X_MIN)

DATA_RANGE_Y == RSub(Y_MAX, Y_MIN)

Min(a, b) == IF a < b THEN a ELSE b

-----------------------------------------------------------------------------
(* Character drawing data: character :> sequence of segments                *)
(* <<start, end>>, coordinates in units of 1/CoordDen.                      *)

CHARACTER_DRAWING_DATA ==
  "A" :> <<
     <<<<240, 320>>, <<0, 320>>>>,
     <<<<0, 320>>, <<0, 0>>>>,
     <<<<0, 0>>, <<30, 320>>>>,
     <<<<0, 40>>, <<60, 320>>>>,
     <<<<0, 80>>, <<90, 320>>>>,
     <<<<0, 120>>, <<120, 320>>>>,
     <<<<0, 160>>, <<150, 320>>>>,
     <<<<0, 200>>, <<180, 320>>>>,
     <<<<0, 240>>, <<210, 320>>>>,
     <<<<0, 280>>, <<240, 320>>>>,
     <<<<240, 320>>, <<240, 0>>>>,
     <<<<240, 0>>, <<210, 320>>>>,
     <<<<240, 40>>, <<180, 320>>>>,
     <<<<240, 80>>, <<150, 320>>>>,
     <<<<240, 120>>, <<120, 320>>>>,
     <<<<240, 160>>, <<90, 320>>>>,
     <<<<240, 200>>, <<60, 320>>>>,
     <<<<240, 240>>, <<30, 320>>>>,
     <<<<240, 280>>, <<0, 320>>>> >>
  @@ "B" :> <<
     <<<<240, 320>>, <<0, 320>>>>,
     <<<<0, 320>>, <<0, 0>>>>,
     <<<<0, 0>>, <<30, 320>>>>,
     <<<<0, 40>>, <<60, 320>>>>,
     <<<<0, 80>>, <<90, 320>>>>,
     <<<<0, 120>>, <<120, 320>>>>,
     <<<<0, 160>>, <<150, 320>>>>,
     <<<<0, 200>>, <<180, 320>>>>,
     <<<<0, 240>>, <<210, 320>>>>,
     <<<<0, 280>>, <<240, 320>>>>,
     <<<<240, 320>>, <<192, 160>>>>,
     <<<<240, 288>>, <<144, 160>>>>,
     <<<<240, 256>>, <<96, 160>>>>,
     <<<<240, 224>>, <<48, 160>>>>,
     <<<<240, 192>>, <<0, 160>>>>,
     <<<<0, 160>>, <<240, 160>>>>,
     <<<<240, 160>>, <<192, 0>>>>,
     <<<<240, 128>>, <<144, 0>>>>,
     <<<<240, 96>>, <<96, 0>>>>,
     <<<<240, 64>>, <<48, 0>>>>,
     <<<<240, 32>>, <<0, 0>>>>,
     <<<<0, 0>>, <<240, 0>>>>,
     <<<<240, 0>>, <<240, 320>>>> >>
  @@ "C" :> <<
     <<<<0, 0>>, <<0, 320>>>>,
     <<<<0, 320>>, <<240, 320>>>>,
     <<<<240, 320>>, <<0, 280>>>>,
     <<<<210, 320>>, <<0, 240>>>>,
     <<<<180, 320>>, <<0, 200>>>>,
     <<<<150, 320>>, <<0, 160>>>>,
     <<<<120, 320>>, <<0, 120>>>>,
     <<<<90, 320>>, <<0, 80>>>>,
     <<<<60, 320>>, <<0, 40>>>>,
     <<<<30, 320>>, <<0, 0>>>>,
     <<<<0, 0>>, <<240, 0>>>>,
     <<<<240, 0>>, <<0, 40>>>>,
     <<<<210, 0>>, <<0, 80>>>>,
     <<<<180, 0>>, <<0, 120>>>>,
     <<<<150, 0>>, <<0, 160>>>>,
     <<<<120, 0>>, <<0, 200>>>>,
     <<<<90, 0>>, <<0, 240>>>>,
     <<<<60, 0>>, <<0, 280>>>>,
     <<<<30, 0>>, <<0, 320>>>> >>
  @@ "D" :> <<
     <<<<240, 320>>, <<240, 0>>>>,
     <<<<240, 0>>, <<0, 0>>>>,
     <<<<0, 0>>, <<240, 40>>>>,
     <<<<30, 0>>, <<240, 80>>>>,
     <<<<60, 0>>, <<240, 120>>>>,
     <<<<90, 0>>, <<240, 160>>>>,
     <<<<120, 0>>, <<240, 200>>>>,
     <<<<150, 0>>, <<240, 240>>>>,
     <<<<180, 0>>, <<240, 280>>>>,
     <<<<210, 0>>, <<240, 320>>>>,
     <<<<240, 320>>, <<0, 320>>>>,
     <<<<0, 320>>, <<240, 280>>>>,
     <<<<30, 320>>, <<240, 240>>>>,
     <<<<60, 320>>, <<240, 200>>>>,
     <<<<90, 320>>, <<240, 160>>>>,
     <<<<120, 320>>, <<240, 120>>>>,
     <<<<150, 320>>, <<240, 80>>>>,
     <<<<180, 320>>, <<240, 40>>>>,
     <<<<210, 320>>, <<240, 0>>>> >>
  @@ "E" :> <<
     <<<<0, 160>>, <<240, 160>>>>,
     <<<<240, 160>>, <<0, 144>>>>,
     <<<<192, 160>>, <<0, 128>>>>,
     <<<<144, 160>>, <<0, 112>>>>,
     <<<<96, 160>>, <<0, 96>>>>,
     <<<<48, 160>>, <<0, 80>>>>,
     <<<<0, 80>>, <<48, 0>>>>,
     <<<<0, 64>>, <<96, 0>>>>,
     <<<<0, 48>>, <<144, 0>>>>,
     <<<<0, 32>>, <<192, 0>>>>,
     <<<<0, 16>>, <<240, 0>>>>,
     <<<<240, 0>>, <<0, 0>>>>,
     <<<<0, 0>>, <<0, 160>>>>,
     <<<<0, 160>>, <<0, 320>>>>,
     <<<<0, 320>>, <<240, 320>>>>,
     <<<<240, 320>>, <<0, 304>>>>,
     <<<<192, 320>>, <<0, 288>>>>,
     <<<<144, 320>>, <<0, 272>>>>,
     <<<<96, 320>>, <<0, 256>>>>,
     <<<<48, 320>>, <<0, 240>>>>,
     <<<<0, 240>>, <<48, 160>>>>,
     <<<<0, 224>>, <<96, 160>>>>,
     <<<<0, 208>>, <<144, 160>>>>,
     <<<<0, 192>>, <<192, 160>>>>,
     <<<<0, 176>>, <<240, 160>>>> >>
  @@ "F" :> <<
     <<<<0, 0>>, <<0, 320>>>>,
     <<<<0, 320>>, <<240, 320>>>>,
     <<<<240, 320>>, <<0, 280>>>>,
     <<<<210, 320>>, <<0, 240>>>>,
     <<<<180, 320>>, <<0, 200>>>>,
     <<<<150, 320>>, <<0, 160>>>>,
     <<<<120, 320>>, <<0, 120>>>>,
     <<<<90, 320>>, <<0, 80>>>>,
     <<<<60, 320>>, <<0, 40>>>>,
     <<<<30, 320>>, <<0, 0>>>>,
     <<<<0, 0>>, <<60, 160>>>>,
     <<<<0, 40>>, <<120, 160>>>>,
     <<<<0, 80>>, <<180, 160>>>>,
     <<<<0, 120>>, <<240, 160>>>>,
     <<<<240, 160>>, <<0, 160>>>> >>
  @@ "G" :> <<
     <<<<0, 320>>, <<0, 0>>>>,
     <<<<0, 0>>, <<240, 0>>>>,
     <<<<240, 0>>, <<240, 160>>>>,
     <<<<240, 160>>, <<120, 160>>>>,
     <<<<120, 160>>, <<240, 120>>>>,
     <<<<150, 160>>, <<240, 80>>>>,
     <<<<180, 160>>, <<240, 40>>>>,
     <<<<210, 160>>, <<240, 0>>>>,
     <<<<240, 0>>, <<0, 40>>>>,
     <<<<210, 0>>, <<0, 80>>>>,
     <<<<180, 0>>, <<0, 120>>>>,
     <<<<150, 0>>, <<0, 160>>>>,
     <<<<120, 0>>, <<0, 200>>>>,
     <<<<90, 0>>, <<0, 240>>>>,
     <<<<60, 0>>, <<0, 280>>>>,
     <<<<30, 0>>, <<0, 320>>>>,
     <<<<0, 320>>, <<240, 320>>>>,
     <<<<240, 320>>, <<0, 288>>>>,
     <<<<192, 320>>, <<0, 256>>>>,
     <<<<144, 320>>, <<0, 224>>>>,
     <<<<96, 320>>, <<0, 192>>>>,
     <<<<48, 320>>, <<0, 160>>>> >>
  @@ "H" :> <<
     <<<<0, 160>>, <<120, 160>>>>,
     <<<<120, 160>>, <<0, 200>>>>,
     <<<<90, 160>>, <<0, 240>>>>,
     <<<<60, 160>>, <<0, 280>>>>,
     <<<<30, 160>>, <<0, 320>>>>,
     <<<<0, 320>>, <<0, 0>>>>,
     <<<<0, 0>>, <<30, 160>>>>,
     <<<<0, 40>>, <<60, 160>>>>,
     <<<<0, 80>>, <<90, 160>>>>,
     <<<<0, 120>>, <<120, 160>>>>,
     <<<<120, 160>>, <<240, 200>>>>,
     <<<<150, 160>>, <<240, 240>>>>,
     <<<<180, 160>>, <<240, 280>>>>,
     <<<<210, 160>>, <<240, 320>>>>,
     <<<<240, 320>>, <<240, 0>>>>,
     <<<<240, 0>>, <<210, 160>>>>,
     <<<<240, 40>>, <<180, 160>>>>,
     <<<<240, 80>>, <<150, 160>>>>,
     <<<<240, 120>>, <<120, 160>>>>,
     <<<<120, 160>>, <<240, 160>>>> >>
  @@ "I" :> <<
     <<<<120, 0>>, <<120, 160>>>>,
     <<<<120, 160>>, <<90, 0>>>>,
     <<<<120, 120>>, <<60, 0>>>>,
     <<<<120, 80>>, <<30, 0>>>>,
     <<<<120, 40>>, <<0, 0>>>>,
     <<<<0, 0>>, <<240, 0>>>>,
     <<<<240, 0>>, <<120, 40>>>>,
     <<<<210, 0>>, <<120, 80>>>>,
     <<<<180, 0>>, <<120, 120>>>>,
     <<<<150, 0>>, <<120, 160>>>>,
     <<<<120, 160>>, <<120, 320>>>>,
     <<<<120, 320>>, <<0, 320>>>>,
     <<<<0, 320>>, <<120, 280>>>>,
     <<<<30, 320>>, <<120, 240>>>>,
     <<<<60, 320>>, <<120, 200>>>>,
     <<<<90, 320>>, <<120, 160>>>>,
     <<<<120, 160>>, <<150, 320>>>>,
     <<<<120, 200>>, <<180, 320>>>>,
     <<<<120, 240>>, <<210, 320>>>>,
     <<<<120, 280>>, <<240, 320>>>>,
     <<<<240, 320>>, <<120, 320>>>> >>
  @@ "J" :> <<
     <<<<0, 0>>, <<240, 0>>>>,
     <<<<240, 0>>, <<240, 320>>>>,
     <<<<240, 320>>, <<210, 0>>>>,
     <<<<240, 280>>, <<180, 0>>>>,
     <<<<240, 240>>, <<150, 0>>>>,
     <<<<240, 200>>, <<120, 0>>>>,
     <<<<240, 160>>, <<90, 0>>>>,
     <<<<240, 120>>, <<60, 0>>>>,
     <<<<240, 80>>, <<30, 0>>>>,
     <<<<240, 40>>, <<0, 0>>>> >>
  @@ "K" :> <<
     <<<<0, 160>>, <<240, 0>>>>,
     <<<<240, 0>>, <<0, 128>>>>,
     <<<<192, 32>>, <<0, 96>>>>,
     <<<<144, 64>>, <<0, 64>>>>,
     <<<<96, 96>>, <<0, 32>>>>,
     <<<<48, 128>>, <<0, 0>>>>,
     <<<<0, 0>>, <<0, 320>>>>,
     <<<<0, 320>>, <<48, 192>>>>,
     <<<<0, 288>>, <<96, 224>>>>,
     <<<<0, 256>>, <<144, 256>>>>,
     <<<<0, 224>>, <<192, 288>>>>,
     <<<<0, 192>>, <<240, 320>>>>,
     <<<<240, 320>>, <<0, 160>>>> >>
  @@ "L" :> <<
     <<<<0, 320>>, <<0, 0>>>>,
     <<<<0, 0>>, <<240, 0>>>>,
     <<<<240, 0>>, <<0, 40>>>>,
     <<<<210, 0>>, <<0, 80>>>>,
     <<<<180, 0>>, <<0, 120>>>>,
     <<<<150, 0>>, <<0, 160>>>>,
     <<<<120, 0>>, <<0, 200>>>>,
     <<<<90, 0>>, <<0, 240>>>>,
     <<<<60, 0>>, <<0, 280>>>>,
     <<<<30, 0>>, <<0, 320>>>> >>
  @@ "M" :> <<
     <<<<120, 160>>, <<0, 320>>>>,
     <<<<0, 320>>, <<0, 0>>>>,
     <<<<0, 0>>, <<15, 300>>>>,
     <<<<0, 40>>, <<30, 280>>>>,
     <<<<0, 80>>, <<45, 260>>>>,
     <<<<0, 120>>, <<60, 240>>>>,
     <<<<0, 160>>, <<75, 220>>>>,
     <<<<0, 200>>, <<90, 200>>>>,
     <<<<0, 240>>, <<105, 180>>>>,
     <<<<0, 280>>, <<120, 160>>>>,
     <<<<120, 160>>, <<240, 320>>>>,
     <<<<240, 320>>, <<240, 0>>>>,
     <<<<240, 0>>, <<225, 300>>>>,
     <<<<240, 40>>, <<210, 280>>>>,
     <<<<240, 80>>, <<195, 260>>>>,
     <<<<240, 120>>, <<180, 240>>>>,
     <<<<240, 160>>, <<165, 220>>>>,
     <<<<240, 200>>, <<150, 200>>>>,
     <<<<240, 240>>, <<135, 180>>>>,
     <<<<240, 280>>, <<120, 160>>>> >>
  @@ "N" :> <<
     <<<<120, 160>>, <<0, 320>>>>,
     <<<<0, 320>>, <<0, 0>>>>,
     <<<<0, 0>>, <<15, 300>>>>,
     <<<<0, 40>>, <<30, 280>>>>,
     <<<<0, 80>>, <<45, 260>>>>,
     <<<<0, 120>>, <<60, 240>>>>,
     <<<<0, 160>>, <<75, 220>>>>,
     <<<<0, 200>>, <<90, 200>>>>,
     <<<<0, 240>>, <<105, 180>>>>,
     <<<<0, 280>>, <<120, 160>>>>,
     <<<<120, 160>>, <<240, 0>>>>,
     <<<<240, 0>>, <<240, 320>>>>,
     <<<<240, 320>>, <<225, 20>>>>,
     <<<<240, 280>>, <<210, 40>>>>,
     <<<<240, 240>>, <<195, 60>>>>,
     <<<<240, 200>>, <<180, 80>>>>,
     <<<<240, 160>>, <<165, 100>>>>,
     <<<<240, 120>>, <<150, 120>>>>,
     <<<<240, 80>>, <<149, 140>>>>,
     <<<<240, 40>>, <<120, 160>>>> >>

\* script.js defines the same segments, for A to F only.
script_CHARACTER_DRAWING_DATA ==
  [ ch \in {"A", "B", "C", "D", "E", "F"} |-> CHARACTER_DRAWING_DATA[ch] ]

\* CHARACTER_DRAWING_DATA of the program v, with an empty list of segments for
\* every extra character.
GlyphTable(v) ==
  LET source == IF v = "script.js" THEN script_CHARACTER_DRAWING_DATA
                ELSE CHARACTER_DRAWING_DATA
  IN IF extraGlyphs = { } THEN source ELSE [ ch \in extraGlyphs |-> << >> ] @@ source

\* CHARACTER_DRAWING_DATA.hasOwnProperty(char)
hasOwnProperty(v, ch) == ch \in DOMAIN GlyphTable(v)

\* The segments of a glyph that the model animates.
charDrawingSegments(v, ch) ==
  LET segs == GlyphTable(v)[ch]
  IN SubSeq(segs, 1, Min(MaxSegments, Len(segs)))

-----------------------------------------------------------------------------
(* Pure functions *)

\* Faulty variant of interpolateSegment: the loop stops before the last point.
interpolateSegment_withoutEnd(segment, steps) ==
  LET start == segment[1]
      end == segment[2]
  IN [ k \in 1..steps |->
         << steps * start[1] + (k - 1) * (end[1] - start[1]),
            steps * start[2] + (k - 1) * (end[2] - start[2]) >> ]

\* interpolateSegment: steps + 1 points, point i at start + (i/steps)(end - start),
\* in units of 1/(CoordDen * steps).
interpolateSegment(segment, steps) ==
  LET start == segment[1]
      end == segment[2]
  IN [ k \in 1..(steps + 1) |->
         << steps * start[1] + (k - 1) * (end[1] - start[1]),
            steps * start[2] + (k - 1) * (end[2] - start[2]) >> ]

\* Faulty variant of FlattenSegments: every segment is added whole.
RECURSIVE FlattenSegments_keepsJoinPoint(_, _, _)
FlattenSegments_keepsJoinPoint(segs, k, acc) ==
  IF k > Len(segs) THEN acc
  ELSE FlattenSegments_keepsJoinPoint(
         segs, k + 1, acc \o interpolateSegment(segs[k], DEFAULT_STEPS))

\* The loop of prepareAnimationForCharacter over segments k..Len(segs), acc being
\* the points pushed so far.
RECURSIVE FlattenSegments(_, _, _)
FlattenSegments(segs, k, acc) ==
  IF k > Len(segs) THEN acc
  ELSE LET interpolated == interpolateSegment(segs[k], DEFAULT_STEPS)
       IN IF /\ Len(acc) > 0
             /\ Len(interpolated) > 0
             /\ acc[Len(acc)][1] = interpolated[1][1]
             /\ acc[Len(acc)][2] = interpolated[1][2]
          THEN FlattenSegments(segs, k + 1, acc \o Tail(interpolated))
          ELSE FlattenSegments(segs, k + 1, acc \o interpolated)

\* The point sequence prepareAnimationForCharacter builds for a character of the table.
CompiledPoints(v, ch) == FlattenSegments(charDrawingSegments(v, ch), 1, << >>)

(* Input handling *)

\* The texts the user submits.
Inputs ==
  { << >>,
    << " " >>,
    << "1" >>,
    << "a" >>,
    << "a", "a" >>,
    << " ", "c", "1", "a" >> }

IsWhitespace(ch) == ch = " "

RECURSIVE trimStart(_)
trimStart(str) ==
  IF str # << >> /\ IsWhitespace(Head(str)) THEN trimStart(Tail(str)) ELSE str

RECURSIVE trimEnd(_)
trimEnd(str) ==
  IF str # << >> /\ IsWhitespace(str[Len(str)])
  THEN trimEnd(SubSeq(str, 1, Len(str) - 1))
  ELSE str

\* String.prototype.trim
trim(str) == trimEnd(trimStart(str))

UpperOf ==
  [ ch \in {"a", "b", "c", "g"} |->
      CASE ch = "a" -> "A" [] ch = "b" -> "B" [] ch = "c" -> "C" [] ch = "g" -> "G" ]

\* Faulty variant of toUpperCase: the text is left as it was typed.
toUpperCase_skipped(str) == str

\* String.prototype.toUpperCase
toUpperCase(str) ==
  [ i \in 1..Len(str) |-> IF str[i] \in DOMAIN UpperOf THEN UpperOf[str[i]] ELSE str[i] ]

\* inputValue.split('').filter(char => CHARACTER_DRAWING_DATA.hasOwnProperty(char))
supportedCharsInInput(v, inputValue) ==
  SelectSeq(inputValue, LAMBDA ch : hasOwnProperty(v, ch))

\* inputValue.split('').filter(char => !CHARACTER_DRAWING_DATA.hasOwnProperty(char))
unsupportedCharsEntered(v, inputValue) ==
  SelectSeq(inputValue, LAMBDA ch : ~hasOwnProperty(v, ch))

-----------------------------------------------------------------------------
(* The program state as a record, and the host's frame scheduler *)

Cur ==
  [ version |-> version,
    wordToAnimate |-> wordToAnimate,
    currentWordCharIndex |-> currentWordCharIndex,
    processedPointsForCurrentChar |-> processedPointsForCurrentChar,
    totalFramesForCurrentChar |-> totalFramesForCurrentChar,
    currentFrame |-> currentFrame,
    animationActive |-> animationActive,
    animationFrameId |-> animationFrameId,
    completedCharacters |-> completedCharacters,
    lastTimestamp |-> lastTimestamp,
    currentCanvasWidth |-> currentCanvasWidth,
    currentCanvasHeight |-> currentCanvasHeight,
    baseScale |-> baseScale,
    wordScaleFactor |-> wordScaleFactor,
    centerXOffsetPixels |-> centerXOffsetPixels,
    centerYOffsetPixels |-> centerYOffsetPixels,
    message |-> message,
    clock |-> clock,
    rafQueue |-> rafQueue,
    frameCallbacks |-> frameCallbacks,
    canvas |-> canvas,
    lastEvent |-> lastEvent,
    rendered |-> rendered,
    effectiveTicks |-> effectiveTicks,
    lastFinished |-> lastFinished,
    sharedWithActive |-> sharedWithActive ]

Msg(kind, word, detail) == [ kind |-> kind, word |-> word, detail |-> detail ]

\* F applied to the value of e, which is evaluated once.
With(e, F(_)) == CHOOSE r \in { F(x) : x \in { e } } : TRUE

\* The handles of the callbacks that are still to be called.
PendingHandles(s) ==
  { s.rafQueue[i].id : i \in 1..Len(s.rafQueue) }
    \cup { s.frameCallbacks[i].id : i \in 1..Len(s.frameCallbacks) }

\* The handle the next requestAnimationFrame returns: a non-zero number that no
\* pending callback and no variable of the program holds.
NextHandle(s) ==
  CHOOSE h \in 1..(Cardinality(PendingHandles(s)) + 2) :
    /\ h \notin PendingHandles(s)
    /\ h # s.animationFrameId
    /\ \A g \in 1..(h - 1) : g \in PendingHandles(s) \/ g = s.animationFrameId

\* A requested callback: the function, the handle, and (history) whether a word
\* has been submitted since it was requested.
requestAnimationFrame(s0, fn) ==
  With(s0, LAMBDA s :
    [ s EXCEPT !.rafQueue =
        Append(@, [ fn |-> fn, id |-> NextHandle(s), stale |-> FALSE ]) ])

\* animationFrameId = requestAnimationFrame(animate)
requestAnimate(s0) ==
  With(s0, LAMBDA s :
    [ requestAnimationFrame(s, "animate") EXCEPT !.animationFrameId = NextHandle(s) ])

\* Faulty variant of cancelAnimationFrame: the callback stays requested.
cancelAnimationFrame_ignored(s, id) == s

cancelAnimationFrame(s, id) ==
  [ s EXCEPT !.rafQueue = SelectSeq(@, LAMBDA cb : cb.id # id),
             !.frameCallbacks = SelectSeq(@, LAMBDA cb : cb.id # id) ]

\* ctx.clearRect(0, 0, canvas.width, canvas.height)
clearRect(s) == [ s EXCEPT !.canvas = << >> ]

-----------------------------------------------------------------------------
(* src/unnamed/part_000 *)

\* Faulty variant of fitFactor: the ratio is taken the wrong way round.
fitFactor_invertedRatio(canvasSize, baseScaledPixels) ==
  IF RLess(RInt(canvasSize), baseScaledPixels)
  THEN RMul(RDiv(baseScaledPixels, RInt(canvasSize)), FIT_MARGIN)
  ELSE RInt(1)

\* Faulty variant of fitFactor: the ratio is also taken when the block is as large
\* as the canvas.
fitFactor_dividesWhenEqual(canvasSize, baseScaledPixels) ==
  IF RLeq(RInt(canvasSize), baseScaledPixels)
  THEN RMul(RDiv(RInt(canvasSize), baseScaledPixels), FIT_MARGIN)
  ELSE RInt(1)

\* widthFitFactor and heightFitFactor of calculateWordScalingAndOffset: 1, or the
\* ratio with its margin if the block at base scale is larger than the canvas.
fitFactor(canvasSize, baseScaledPixels) ==
  IF RLess(RInt(canvasSize), baseScaledPixels)
  THEN RMul(RDiv(RInt(canvasSize), baseScaledPixels), FIT_MARGIN)
  ELSE RInt(1)

\* Faulty variant of centerOffset: the free space is not halved.
centerOffset_notHalved(canvasSize, finalScaledPixels) ==
  RSub(RInt(canvasSize), finalScaledPixels)

\* centerXOffsetPixels and centerYOffsetPixels of calculateWordScalingAndOffset.
centerOffset(canvasSize, finalScaledPixels) ==
  RDiv(RSub(RInt(canvasSize), finalScaledPixels), RInt(2))

\* The values calculateWordScalingAndOffset assigns, for a word of wordLength
\* characters: <<wordScaleFactor, centerXOffsetPixels, centerYOffsetPixels>>.
WordFit(wordLength, canvasWidth, canvasHeight, scale) ==
  LET unscaledRequiredDataWidth == RInt(wordLength * CHAR_WIDTH_DATA_UNITS)
      unscaledRequiredDataHeight == DATA_RANGE_Y
      baseScaledPixelWidth == RMul(unscaledRequiredDataWidth, scale)
      baseScaledPixelHeight == RMul(unscaledRequiredDataHeight, scale)
      widthFitFactor == fitFactor(canvasWidth, baseScaledPixelWidth)
      heightFitFactor == fitFactor(canvasHeight, baseScaledPixelHeight)
      wsf == RMin(widthFitFactor, heightFitFactor)
      finalScaledPixelWidth == RMul(baseScaledPixelWidth, wsf)
      finalScaledPixelHeight == RMul(baseScaledPixelHeight, wsf)
  IN << wsf,
        centerOffset(canvasWidth, finalScaledPixelWidth),
        centerOffset(canvasHeight, finalScaledPixelHeight) >>

calculateWordScalingAndOffset(s0, word) ==
  With(s0, LAMBDA s :
    With(WordFit(Len(word), s.currentCanvasWidth, s.currentCanvasHeight, s.baseScale),
         LAMBDA fit :
           [ s EXCEPT !.wordScaleFactor = fit[1],
                      !.centerXOffsetPixels = fit[2],
                      !.centerYOffsetPixels = fit[3] ]))

\* The baseScale updateCanvasDimensions computes.
BaseScaleFor(clientWidth, clientHeight) ==
  LET availableCanvasMinDimension == Min(clientWidth, clientHeight)
      dataMaxDimension == RMax(DATA_RANGE_X, DATA_RANGE_Y)
  IN IF availableCanvasMinDimension = 0 \/ dataMaxDimension = RInt(0)
     THEN RInt(0)
     ELSE RMul(RDiv(RInt(availableCanvasMinDimension), dataMaxDimension), SIZE_MULTIPLIER)

\* clientWidth, clientHeight: the size of the canvas element when the function runs.
\* Assigning canvas.width and canvas.height resets the drawing surface.
updateCanvasDimensions(s0, clientWidth, clientHeight) ==
  With([ clearRect(s0) EXCEPT
           !.currentCanvasWidth = clientWidth,
           !.currentCanvasHeight = clientHeight,
           !.baseScale = BaseScaleFor(clientWidth, clientHeight) ],
       LAMBDA s1 :
         requestAnimationFrame(
           IF s1.wordToAnimate # << >>
           THEN calculateWordScalingAndOffset(s1, s1.wordToAnimate)
           ELSE [ s1 EXCEPT !.wordScaleFactor = RInt(1),
                            !.centerXOffsetPixels = RInt(0),
                            !.centerYOffsetPixels = RInt(0) ],
           "redrawCanvasContent"))

\* Faulty variant of transformPoint: the character offset is added to the scaled
\* coordinate.
transformPoint_offsetInPixels(s, dataX, dataY, charXOffsetDataUnits) ==
  LET scaledX == RMul(RMul(RSub(dataX, X_MIN), s.baseScale), s.wordScaleFactor)
      scaledY == RMul(RMul(RSub(dataY, Y_MIN), s.baseScale), s.wordScaleFactor)
  IN [ x |-> RAdd(RAdd(scaledX, charXOffsetDataUnits), s.centerXOffsetPixels),
       y |-> RSub(RInt(s.currentCanvasHeight), RAdd(scaledY, s.centerYOffsetPixels)) ]

\* transformPoint of part_000: the canvas coordinates of the point (dataX, dataY) of
\* a character that is drawn charXOffsetDataUnits to the right.
transformPoint(s, dataX, dataY, charXOffsetDataUnits) ==
  LET transformedDataX == RAdd(dataX, charXOffsetDataUnits)
      transformedDataY == dataY
      scaledX == RMul(RMul(RSub(transformedDataX, X_MIN), s.baseScale), s.wordScaleFactor)
      scaledY == RMul(RMul(RSub(transformedDataY, Y_MIN), s.baseScale), s.wordScaleFactor)
  IN [ x |-> RAdd(scaledX, s.centerXOffsetPixels),
       y |-> RSub(RInt(s.currentCanvasHeight), RAdd(scaledY, s.centerYOffsetPixels)) ]

\* Faulty variant of newPointsArray: the array that processedPointsForCurrentChar
\* refers to is emptied in place, and with it every completed record that shares it.
newPointsArray_emptiedInPlace(s) ==
  [ s EXCEPT !.processedPointsForCurrentChar = << >>,
             !.completedCharacters =
                [ i \in 1..Len(@) |->
                    IF i \in s.sharedWithActive
                    THEN [ @[i] EXCEPT !.processedPoints = << >> ]
                    ELSE @[i] ] ]

\* processedPointsForCurrentChar = []: the variable refers to a new array, which no
\* completed record shares.
newPointsArray(s) ==
  [ s EXCEPT !.processedPointsForCurrentChar = << >>,
             !.sharedWithActive = { } ]

\* processedPointsForCurrentChar.push(...points): the array is extended in place, so
\* every completed record that shares it has the points as well.
pushPoints(s, points) ==
  [ s EXCEPT !.processedPointsForCurrentChar = @ \o points,
             !.completedCharacters =
                [ i \in 1..Len(@) |->
                    IF i \in s.sharedWithActive
                    THEN [ @[i] EXCEPT !.processedPoints = @ \o points ]
                    ELSE @[i] ] ]

\* Faulty variant of pushCompleted: the record takes the place of the last one.
pushCompleted_replacesLast(s, record) ==
  [ s EXCEPT !.completedCharacters =
               IF @ = << >> THEN << record >> ELSE [ @ EXCEPT ![Len(@)] = record ] ]

\* completedCharacters.push({ ..., processedPoints: processedPointsForCurrentChar, ... }):
\* the new record shares the array of the current character.
pushCompleted(s, record) ==
  [ s EXCEPT !.completedCharacters = Append(@, record),
             !.sharedWithActive = @ \cup { Len(s.completedCharacters) + 1 } ]

\* What prepareAnimationForCharacter assigns when charDrawingSegments is segs.
preparedFromSegments(segs) ==
  With(FlattenSegments(segs, 1, << >>), LAMBDA points :
    [ processedPointsForCurrentChar |-> points,
      totalFramesForCurrentChar |-> Len(points),
      currentFrame |-> 0 ])

\* The value prepareAnimationForCharacter returns.
prepareSucceeds(v, char) == hasOwnProperty(v, char)

\* The state prepareAnimationForCharacter leaves (the same function in both programs).
prepareAnimationForCharacter(s0, char) ==
  With(s0, LAMBDA s :
    IF ~hasOwnProperty(s.version, char)
    THEN [ newPointsArray(s) EXCEPT !.totalFramesForCurrentChar = 0 ]
    ELSE With(preparedFromSegments(charDrawingSegments(s.version, char)), LAMBDA prepared :
           [ pushPoints(newPointsArray(s), prepared.processedPointsForCurrentChar) EXCEPT
               !.totalFramesForCurrentChar = prepared.totalFramesForCurrentChar,
               !.currentFrame = prepared.currentFrame ]))

\* Faulty variant of slice0: one point more than asked for.
slice0_onePointMore(points, end) == SubSeq(points, 1, Min(end + 1, Len(points)))

\* Array.prototype.slice(0, end)
slice0(points, end) == SubSeq(points, 1, Min(end, Len(points)))

\* Faulty variant of drawPath: it strokes whatever it is given.
drawPath_withoutGuard(s, points, xOffset) ==
  [ s EXCEPT !.canvas = Append(@, [ points |-> points, xOffset |-> xOffset ]) ]

\* drawPath: one stroke through the points, none for fewer than two points.
drawPath(s, points, xOffset) ==
  IF Len(points) < 2 THEN s
  ELSE [ s EXCEPT !.canvas = Append(@, [ points |-> points, xOffset |-> xOffset ]) ]

\* The drawPath call for the current character; lastEvent.drew keeps which prefix
\* of which character the call was given.
drawCurrentPath(s0, xOffset) ==
  With(s0, LAMBDA s :
    With(slice0(s.processedPointsForCurrentChar, s.currentFrame + 1),
         LAMBDA pointsToDrawForCurrentChar :
           [ drawPath(s, pointsToDrawForCurrentChar, xOffset) EXCEPT
               !.lastEvent.drew = [ glyph |-> s.currentWordCharIndex,
                                    length |-> Len(pointsToDrawForCurrentChar) ] ]))

\* The loop over completedCharacters that calls drawPath for each of them.
RECURSIVE drawCompleted(_, _)
drawCompleted(s0, k) ==
  With(s0, LAMBDA s :
    IF k > Len(s.completedCharacters) THEN s
    ELSE drawCompleted(drawPath(s, s.completedCharacters[k].processedPoints,
                                s.completedCharacters[k].xOffset), k + 1))

redrawCanvasContent(s0) ==
  With(drawCompleted(clearRect(s0), 1), LAMBDA s1 :
    IF s1.animationActive /\ s1.currentWordCharIndex < Len(s1.wordToAnimate)
    THEN drawCurrentPath(
           IF Len(s1.processedPointsForCurrentChar) = 0
           THEN prepareAnimationForCharacter(
                  s1, s1.wordToAnimate[s1.currentWordCharIndex + 1])
           ELSE s1,
           s1.currentWordCharIndex * CHAR_WIDTH_DATA_UNITS)
    ELSE s1)

\* Faulty variant of CompletedRecord: the offset of the next slot.
CompletedRecord_nextSlot(s) ==
  [ char |-> s.wordToAnimate[s.currentWordCharIndex + 1],
    processedPoints |-> s.processedPointsForCurrentChar,
    xOffset |-> (s.currentWordCharIndex + 1) * CHAR_WIDTH_DATA_UNITS ]

\* The record animate pushes for the character that has just finished.
CompletedRecord(s) ==
  [ char |-> s.wordToAnimate[s.currentWordCharIndex + 1],
    processedPoints |-> s.processedPointsForCurrentChar,
    xOffset |-> s.currentWordCharIndex * CHAR_WIDTH_DATA_UNITS ]

\* Faulty variant of charAnimationFinished: one frame late.
charAnimationFinished_late(s) == s.currentFrame >= s.totalFramesForCurrentChar

\* Faulty variant of charAnimationFinished: one frame early.
charAnimationFinished_early(s) == s.currentFrame >= s.totalFramesForCurrentChar - 2

\* Faulty variant of charAnimationFinished: only the last frame itself ends the
\* character.
charAnimationFinished_onLastFrameOnly(s) ==
  s.currentFrame = s.totalFramesForCurrentChar - 1

\* The test animate makes of whether the current character's animation is finished.
charAnimationFinished(s) == s.currentFrame >= s.totalFramesForCurrentChar - 1

\* Faulty variant of currentCharMessage: the character that has just finished.
currentCharMessage_namesFinishedChar(s, kind) ==
  Msg(kind, s.wordToAnimate, << s.wordToAnimate[s.currentWordCharIndex] >>)

\* The status animate shows when it moves to the next character of the word:
\* `...: '${wordToAnimate}' - Current char: '${wordToAnimate[currentWordCharIndex]}'`
currentCharMessage(s, kind) ==
  Msg(kind, s.wordToAnimate, << s.wordToAnimate[s.currentWordCharIndex + 1] >>)

\* Lines 605-640 of animate: advance the frame or move to the next character.
advance(s0) ==
  With(s0, LAMBDA s :
    IF s.currentWordCharIndex < Len(s.wordToAnimate)
    THEN IF charAnimationFinished(s)
         THEN With(newPointsArray([ pushCompleted(s, CompletedRecord(s)) EXCEPT
                                      !.currentWordCharIndex = @ + 1,
                                      !.currentFrame = 0 ]),
                   LAMBDA s1 :
                     IF s1.currentWordCharIndex < Len(s1.wordToAnimate)
                     THEN prepareAnimationForCharacter(
                            [ s1 EXCEPT !.message =
                                currentCharMessage(s1, "Stitching current char") ],
                            s1.wordToAnimate[s1.currentWordCharIndex + 1])
                     ELSE [ s1 EXCEPT
                              !.message = Msg("Animation finished", s1.wordToAnimate, << >>),
                              !.animationActive = FALSE ])
         ELSE [ s EXCEPT !.currentFrame = @ + 1 ]
    ELSE [ s EXCEPT !.animationActive = FALSE,
                    !.message = Msg("Animation finished", s.wordToAnimate, << >>) ])

\* Faulty variant of tickTime: lastTimestamp is left as it was.
tickTime_notAdvanced(timestamp, deltaTime, interval) == timestamp - deltaTime

\* Faulty variant of tickTime: one interval after the last tick, so that the time
\* a late callback lost is made up for by the callbacks that follow.
tickTime_catchesUp(timestamp, deltaTime, interval) == timestamp - deltaTime + interval

\* Faulty variant of tickTime: the time of the callback itself.
tickTime_withoutCarry(timestamp, deltaTime, interval) == timestamp

\* lastTimestamp = timestamp - (deltaTime % ANIMATION_INTERVAL_MS)
tickTime(timestamp, deltaTime, interval) == timestamp - (deltaTime % interval)

\* Faulty variant of animate: the next frame is requested whether or not the
\* animation is still active.
animate_alwaysRequests(s0, timestamp) ==
  With(s0, LAMBDA s :
    IF ~s.animationActive
    THEN [ s EXCEPT !.animationFrameId = 0 ]
    ELSE requestAnimate(
           IF timestamp - s.lastTimestamp >= ANIMATION_INTERVAL_MS
           THEN advance(redrawCanvasContent(
                  [ s EXCEPT !.lastTimestamp =
                      tickTime(timestamp, timestamp - s.lastTimestamp,
                               ANIMATION_INTERVAL_MS) ]))
           ELSE s))

\* animate of part_000, called by the host with the timestamp of the frame.
animate(s0, timestamp) ==
  With(s0, LAMBDA s :
    IF ~s.animationActive
    THEN [ s EXCEPT !.animationFrameId = 0 ]
    ELSE With(IF timestamp - s.lastTimestamp >= ANIMATION_INTERVAL_MS
              THEN advance(redrawCanvasContent(
                     [ s EXCEPT !.lastTimestamp =
                         tickTime(timestamp, timestamp - s.lastTimestamp,
                                  ANIMATION_INTERVAL_MS) ]))
              ELSE s,
              LAMBDA s1 : IF s1.animationActive THEN requestAnimate(s1) ELSE s1))

\* Faulty variant of takeWordAndStop: the running flag is left as it is.
takeWordAndStop_stillRunning(s0, value) ==
  With(s0, LAMBDA s :
    [ (IF s.animationFrameId # 0 THEN cancelAnimationFrame(s, s.animationFrameId) ELSE s)
        EXCEPT !.wordToAnimate = supportedCharsInInput(s.version, toUpperCase(trim(value))) ])

\* Lines 651-661 of the click listener: the word is taken from the text field's
\* value and any ongoing animation is stopped.
takeWordAndStop(s0, value) ==
  With(s0, LAMBDA s :
    [ (IF s.animationFrameId # 0 THEN cancelAnimationFrame(s, s.animationFrameId) ELSE s)
        EXCEPT !.wordToAnimate = supportedCharsInInput(s.version, toUpperCase(trim(value))),
               !.animationActive = FALSE ])

\* Faulty variant of startMessage: the characters left out are not reported.
startMessage_neverWarns(v, value, word, kind) == Msg(kind, word, << >>)

\* The status the click listener shows for a word that is not empty.
startMessage(v, value, word, kind) ==
  IF Len(unsupportedCharsEntered(v, toUpperCase(trim(value)))) > 0
  THEN Msg("Warning not defined", word, unsupportedCharsEntered(v, toUpperCase(trim(value))))
  ELSE Msg(kind, word, << >>)

\* Faulty variant of startWord: the loop is started again on the progress of the
\* previous word.
startWord_keepsProgress(s0, value) ==
  With(s0, LAMBDA s :
    requestAnimate([ updateCanvasDimensions(s, s.currentCanvasWidth, s.currentCanvasHeight)
                       EXCEPT !.animationActive = TRUE, !.lastTimestamp = s.clock ]))

\* Lines 673-713 of the click listener, for a word that is not empty.
startWord(s0, value) ==
  With(s0, LAMBDA s :
    With(prepareAnimationForCharacter(
           [ calculateWordScalingAndOffset(
               updateCanvasDimensions(s, s.currentCanvasWidth, s.currentCanvasHeight),
               s.wordToAnimate)
             EXCEPT
               !.message = startMessage(s.version, value, s.wordToAnimate, "Stitching"),
               !.currentWordCharIndex = 0,
               !.currentFrame = 0,
               !.processedPointsForCurrentChar = << >>,
               !.sharedWithActive = { } ],
           s.wordToAnimate[1]),
         LAMBDA s1 :
           IF ~prepareSucceeds(s.version, s.wordToAnimate[1])
           THEN [ clearRect(s1) EXCEPT
                    !.message = Msg("Error could not prepare", << >>, << s.wordToAnimate[1] >>),
                    !.completedCharacters = << >>,
                    !.sharedWithActive = { },
                    !.wordToAnimate = << >>,
                    !.wordScaleFactor = RInt(1),
                    !.centerXOffsetPixels = RInt(0),
                    !.centerYOffsetPixels = RInt(0) ]
           ELSE requestAnimate([ clearRect(s1) EXCEPT
                                   !.completedCharacters = << >>,
                                   !.sharedWithActive = { },
                                   !.animationActive = TRUE,
                                   !.lastTimestamp = s.clock ])))

\* The animateButton click listener; value is textInput.value and s.clock is what
\* performance.now() returns.
animateButtonClick(s0, value) ==
  With(takeWordAndStop(s0, value), LAMBDA s :
    IF Len(s.wordToAnimate) = 0
    THEN [ clearRect(s) EXCEPT
             !.message = Msg("Please enter supported characters", << >>, << >>),
             !.completedCharacters = << >>,
             !.sharedWithActive = { },
             !.wordScaleFactor = RInt(1),
             !.centerXOffsetPixels = RInt(0),
             !.centerYOffsetPixels = RInt(0) ]
    ELSE startWord(s, value))

\* Faulty variant of windowResize: the scale factor and the offsets of the word are
\* left as they were.
windowResize_keepsFit(s, clientWidth, clientHeight) ==
  [ updateCanvasDimensions(s, clientWidth, clientHeight) EXCEPT
      !.wordScaleFactor = s.wordScaleFactor,
      !.centerXOffsetPixels = s.centerXOffsetPixels,
      !.centerYOffsetPixels = s.centerYOffsetPixels ]

\* Faulty variant of windowResize: the current character starts again.
windowResize_restartsCharacter(s, clientWidth, clientHeight) ==
  [ updateCanvasDimensions(s, clientWidth, clientHeight) EXCEPT !.currentFrame = 0 ]

\* The window resize listener.
windowResize(s, clientWidth, clientHeight) ==
  updateCanvasDimensions(s, clientWidth, clientHeight)

-----------------------------------------------------------------------------
(* src/script.js *)

SCALE_X == RDiv(RInt(CANVAS_SIZE), DATA_RANGE_X)

SCALE_Y == RDiv(RInt(CANVAS_SIZE), DATA_RANGE_Y)

\* Lines 347-370 of animate: advance the frame or move to the next character.
script_advance(s0) ==
  With(s0, LAMBDA s :
    IF charAnimationFinished(s)
    THEN With(newPointsArray([ pushCompleted(s, CompletedRecord(s)) EXCEPT
                                 !.currentWordCharIndex = @ + 1,
                                 !.currentFrame = 0 ]),
              LAMBDA s1 :
                IF s1.currentWordCharIndex < Len(s1.wordToAnimate)
                THEN [ s1 EXCEPT !.message = currentCharMessage(s1, "Animating current char") ]
                ELSE [ s1 EXCEPT !.message =
                         Msg("Animation finished", s1.wordToAnimate, << >>) ])
    ELSE [ s EXCEPT !.currentFrame = @ + 1 ])

\* Lines 323-370 of animate: the current character is prepared if it has no points
\* yet, drawn up to the current frame, and advanced.
script_animateCurrent(s0) ==
  With(s0, LAMBDA s :
    IF /\ Len(s.processedPointsForCurrentChar) = 0
       /\ ~prepareSucceeds(s.version, s.wordToAnimate[s.currentWordCharIndex + 1])
    THEN [ prepareAnimationForCharacter(s, s.wordToAnimate[s.currentWordCharIndex + 1])
             EXCEPT !.currentWordCharIndex = @ + 1, !.currentFrame = 0 ]
    ELSE script_advance(
           drawCurrentPath(
             IF Len(s.processedPointsForCurrentChar) = 0
             THEN prepareAnimationForCharacter(
                    s, s.wordToAnimate[s.currentWordCharIndex + 1])
             ELSE s,
             s.currentWordCharIndex * CHAR_WIDTH_DATA_UNITS)))

\* Faulty variant of script_allAnimated: the finished word is taken off the canvas.
script_allAnimated_forgetsWord(s) ==
  [ s EXCEPT !.message = Msg("Animation finished", s.wordToAnimate, << >>),
             !.completedCharacters = << >> ]

\* Lines 371-378 of animate: all characters of the word have been animated.
script_allAnimated(s) ==
  [ s EXCEPT !.message = Msg("Animation finished", s.wordToAnimate, << >>) ]

script_animate(s0, timestamp) ==
  With(s0, LAMBDA s :
    IF ~s.animationActive
    THEN s
    ELSE IF timestamp - s.lastTimestamp >= script_ANIMATION_INTERVAL_MS
         THEN With(drawCompleted(clearRect(
                     [ s EXCEPT !.lastTimestamp =
                         tickTime(timestamp, timestamp - s.lastTimestamp,
                                  script_ANIMATION_INTERVAL_MS) ]), 1),
                   LAMBDA s1 :
                     requestAnimationFrame(
                       IF s1.currentWordCharIndex < Len(s1.wordToAnimate)
                       THEN script_animateCurrent(s1)
                       ELSE script_allAnimated(s1),
                       "animate"))
         ELSE requestAnimationFrame(s, "animate"))

\* transformPoint of script.js: the canvas coordinates of the point (dataX, dataY)
\* of a character that is charXOffsetDataUnits to the right of the first.
script_transformPoint(s, dataX, dataY, charXOffsetDataUnits) ==
  LET transformedDataX == RAdd(dataX, charXOffsetDataUnits)
  IN [ x |-> RMul(RMul(RSub(transformedDataX, X_MIN), SCALE_X), s.wordScaleFactor),
       y |-> RSub(RInt(CANVAS_SIZE),
                  RMul(RMul(RSub(dataY, Y_MIN), SCALE_Y), s.wordScaleFactor)) ]

\* Faulty variant of script_wordScaleFactor: the word is never scaled down.
script_wordScaleFactor_neverScales(wordLength) == RInt(1)

\* The wordScaleFactor the click listener of script.js computes.
script_wordScaleFactor(wordLength) ==
  LET requiredDataWidth == RInt(wordLength * CHAR_WIDTH_DATA_UNITS)
      canvasAvailableDataWidth == RSub(X_MAX, X_MIN)
  IN IF RLess(canvasAvailableDataWidth, requiredDataWidth)
     THEN RMul(RDiv(canvasAvailableDataWidth, requiredDataWidth), FIT_MARGIN)
     ELSE RInt(1)

\* The animateButton click listener of script.js; value is textInput.value.
script_animateButtonClick(s0, value) ==
  With([ s0 EXCEPT !.wordToAnimate =
           supportedCharsInInput(s0.version, toUpperCase(trim(value))) ],
       LAMBDA s :
         IF Len(s.wordToAnimate) = 0
         THEN [ clearRect(s) EXCEPT
                  !.message = Msg("Please enter supported characters", << >>, << >>),
                  !.animationActive = FALSE,
                  !.completedCharacters = << >>,
                  !.sharedWithActive = { } ]
         ELSE requestAnimationFrame(
                [ clearRect(s) EXCEPT
                    !.wordScaleFactor = script_wordScaleFactor(Len(s.wordToAnimate)),
                    !.message = startMessage(s.version, value, s.wordToAnimate, "Animating"),
                    !.currentWordCharIndex = 0,
                    !.currentFrame = 0,
                    !.processedPointsForCurrentChar = << >>,
                    !.completedCharacters = << >>,
                    !.sharedWithActive = { },
                    !.animationActive = TRUE ],
                "animate"))

-----------------------------------------------------------------------------
(* The state machine *)

\* The sizes the canvas element takes.
Viewports == { << 300, 150 >>, << 150, 300 >>, << 0, 150 >> }

\* Time that passes between two frames, in ms.
FrameDeltas == { 5, 10 }

Interval(v) ==
  IF v = "script.js" THEN script_ANIMATION_INTERVAL_MS ELSE ANIMATION_INTERVAL_MS

\* The representative of (clock, lastTimestamp) that the state keeps: lastTimestamp
\* is 0 and the elapsed time is below two intervals.
Rebase(s) ==
  LET elapsed == s.clock - s.lastTimestamp
      interval == Interval(s.version)
  IN [ s EXCEPT !.lastTimestamp = 0,
                !.clock = IF elapsed >= 2 * interval
                          THEN interval + (elapsed % interval)
                          ELSE elapsed ]

\* The representative of the handles that the state keeps: a pending callback's
\* handle is its place among the pending callbacks, and a handle that
\* animationFrameId holds of a callback no longer pending is the next number.
Renumber(s) ==
  LET all == s.frameCallbacks \o s.rafQueue
      n == Len(all)
      place(id) == IF \E i \in 1..n : all[i].id = id
                   THEN CHOOSE i \in 1..n : all[i].id = id
                   ELSE n + 1
  IN [ s EXCEPT
         !.frameCallbacks = [ i \in 1..Len(s.frameCallbacks) |->
                                [ s.frameCallbacks[i] EXCEPT !.id = i ] ],
         !.rafQueue = [ i \in 1..Len(s.rafQueue) |->
                          [ s.rafQueue[i] EXCEPT !.id = Len(s.frameCallbacks) + i ] ],
         !.animationFrameId = IF s.animationFrameId = 0 THEN 0 ELSE place(s.animationFrameId) ]

Commit(s0) ==
  \E s \in { Renumber(Rebase(s0)) } :
     /\ version' = s.version
     /\ wordToAnimate' = s.wordToAnimate
     /\ currentWordCharIndex' = s.currentWordCharIndex
     /\ processedPointsForCurrentChar' = s.processedPointsForCurrentChar
     /\ totalFramesForCurrentChar' = s.totalFramesForCurrentChar
     /\ currentFrame' = s.currentFrame
     /\ animationActive' = s.animationActive
     /\ animationFrameId' = s.animationFrameId
     /\ completedCharacters' = s.completedCharacters
     /\ lastTimestamp' = s.lastTimestamp
     /\ currentCanvasWidth' = s.currentCanvasWidth
     /\ currentCanvasHeight' = s.currentCanvasHeight
     /\ baseScale' = s.baseScale
     /\ wordScaleFactor' = s.wordScaleFactor
     /\ centerXOffsetPixels' = s.centerXOffsetPixels
     /\ centerYOffsetPixels' = s.centerYOffsetPixels
     /\ message' = s.message
     /\ clock' = s.clock
     /\ rafQueue' = s.rafQueue
     /\ frameCallbacks' = s.frameCallbacks
     /\ canvas' = s.canvas
     /\ lastEvent' = s.lastEvent
     /\ rendered' = s.rendered
     /\ effectiveTicks' = s.effectiveTicks
     /\ lastFinished' = s.lastFinished
     /\ sharedWithActive' = s.sharedWithActive

\* Where the animation stands: what lastEvent remembers of the state an event found.
Stage(s) ==
  CASE s.wordToAnimate = << >> -> "idle"
    [] s.currentWordCharIndex >= Len(s.wordToAnimate) -> "finished"
    [] s.currentFrame > 0 -> "mid-glyph"
    [] s.currentWordCharIndex > 0 -> "promoted"
    [] OTHER -> "submitted"

\* No finished animation.
NoRun == [ word |-> << >>, completed |-> << >> ]

\* No function call.
NoCall == [ fn |-> "none", args |-> << >>, result |-> << >> ]

\* No prefix of any character.
NoPrefix == [ glyph |-> 0, length |-> 0 ]

\* lastEvent: the handler or callback op ran in a state at stage pre; effective says
\* that it was a tick that found the animation active and the interval elapsed; drew
\* is the prefix of the current character that it drew; stale says that it was a
\* callback requested before the latest submission; input is the text that a click
\* found in the text field; elapsed is the timestamp - lastTimestamp that an animate
\* callback was called with (less whole intervals from two intervals on, as in Rebase).
Event(op, pre, effective) ==
  [ op |-> op, pre |-> pre, effective |-> effective, drew |-> NoPrefix, stale |-> FALSE,
    input |-> << >>, elapsed |-> 0 ]

\* The state when the script has been evaluated, before window.onload.
Blank(v) ==
  [ version |-> v,
    wordToAnimate |-> << >>,
    currentWordCharIndex |-> 0,
    processedPointsForCurrentChar |-> << >>,
    totalFramesForCurrentChar |-> 0,
    currentFrame |-> 0,
    animationActive |-> FALSE,
    animationFrameId |-> 0,
    completedCharacters |-> << >>,
    lastTimestamp |-> 0,
    currentCanvasWidth |-> IF v = "script.js" THEN CANVAS_SIZE ELSE 0,
    currentCanvasHeight |-> IF v = "script.js" THEN CANVAS_SIZE ELSE 0,
    baseScale |-> IF v = "script.js" THEN SCALE_X ELSE RInt(0),
    wordScaleFactor |-> RInt(1),
    centerXOffsetPixels |-> RInt(0),
    centerYOffsetPixels |-> RInt(0),
    message |-> Msg("", << >>, << >>),
    clock |-> 0,
    rafQueue |-> << >>,
    frameCallbacks |-> << >>,
    canvas |-> << >>,
    lastEvent |-> Event("load", "idle", FALSE),
    rendered |-> NoPrefix,
    effectiveTicks |-> 0,
    lastFinished |-> NoRun,
    sharedWithActive |-> { } ]

\* window.onload of part_000
windowOnload(s, clientWidth, clientHeight) ==
  [ updateCanvasDimensions(s, clientWidth, clientHeight) EXCEPT
      !.message = Msg("Enter characters", << >>, << >>) ]

\* The last statement of script.js
script_load(s) == [ s EXCEPT !.message = Msg("Enter characters", << >>, << >>) ]

Loaded(v, vp) ==
  Renumber(IF v = "script.js"
           THEN script_load(Blank(v))
           ELSE windowOnload(Blank(v), vp[1], vp[2]))

\* The program has been loaded.
Load ==
  \E v \in { "part_000", "script.js" } :
    \E vp \in Viewports :
      \E s \in { Loaded(v, vp) } :
         /\ version = s.version
         /\ wordToAnimate = s.wordToAnimate
         /\ currentWordCharIndex = s.currentWordCharIndex
         /\ processedPointsForCurrentChar = s.processedPointsForCurrentChar
         /\ totalFramesForCurrentChar = s.totalFramesForCurrentChar
         /\ currentFrame = s.currentFrame
         /\ animationActive = s.animationActive
         /\ animationFrameId = s.animationFrameId
         /\ completedCharacters = s.completedCharacters
         /\ lastTimestamp = s.lastTimestamp
         /\ currentCanvasWidth = s.currentCanvasWidth
         /\ currentCanvasHeight = s.currentCanvasHeight
         /\ baseScale = s.baseScale
         /\ wordScaleFactor = s.wordScaleFactor
         /\ centerXOffsetPixels = s.centerXOffsetPixels
         /\ centerYOffsetPixels = s.centerYOffsetPixels
         /\ message = s.message
         /\ clock = s.clock
         /\ rafQueue = s.rafQueue
         /\ frameCallbacks = s.frameCallbacks
         /\ canvas = s.canvas
         /\ lastEvent = s.lastEvent
         /\ rendered = s.rendered
         /\ effectiveTicks = s.effectiveTicks
         /\ lastFinished = s.lastFinished
         /\ sharedWithActive = s.sharedWithActive
         /\ evaluated = NoCall

\* The value of sinceSubmission in the specifications that do not keep the time.
NotTimed == -1

Init == Load /\ extraGlyphs = { } /\ sinceSubmission = NotTimed

\* History: the animate callbacks that are pending when a word is submitted were
\* requested before the submission.
MarkStale(s) ==
  [ s EXCEPT !.rafQueue =
      [ i \in 1..Len(s.rafQueue) |->
          [ s.rafQueue[i] EXCEPT !.stale = @ \/ s.rafQueue[i].fn = "animate" ] ] ]

\* The user leaves the text input in the text field and clicks the animate button.
Click(input) ==
  /\ frameCallbacks = << >>
  /\ \E s0 \in { [ MarkStale(Cur) EXCEPT
                      !.lastEvent = [ Event("click", Stage(Cur), FALSE) EXCEPT !.input = input ],
                      !.rendered = NoPrefix,
                      !.effectiveTicks = 0,
                      !.lastFinished =
                         IF Stage(Cur) = "finished"
                         THEN [ word |-> wordToAnimate, completed |-> completedCharacters ]
                         ELSE NoRun ] } :
       \E s \in { IF version = "script.js"
                  THEN script_animateButtonClick(s0, input)
                  ELSE animateButtonClick(s0, input) } :
         /\ Len(s.rafQueue) <= MaxPending
         /\ Commit([ s EXCEPT !.lastFinished =
                                IF @.word = s.wordToAnimate THEN @ ELSE NoRun ])
         /\ sinceSubmission' = (IF sinceSubmission = NotTimed THEN NotTimed ELSE 0)
         /\ UNCHANGED << evaluated, extraGlyphs >>

\* The window is resized: the canvas element takes the size vp and the resize
\* listener runs (part_000 only; the canvas of script.js has a fixed size).
Resize(vp) ==
  /\ version = "part_000"
  /\ frameCallbacks = << >>
  /\ Len(rafQueue) < MaxPending
  /\ Commit(windowResize([ Cur EXCEPT !.lastEvent = Event("resize", Stage(Cur), FALSE) ],
                         vp[1], vp[2]))
  /\ UNCHANGED << evaluated, extraGlyphs, sinceSubmission >>

\* The callback cb, called with the frame's timestamp.
RunCallback(s, cb, timestamp) ==
  CASE cb.fn = "redrawCanvasContent" -> redrawCanvasContent(s)
    [] cb.fn = "animate" /\ s.version = "script.js" -> script_animate(s, timestamp)
    [] OTHER -> animate(s, timestamp)

\* The host calls one animation frame callback; lastEvent, rendered and
\* effectiveTicks keep what it was and what it drew.
CallCallback(s0, cb, timestamp) ==
  With(s0, LAMBDA s :
    With([ Event(cb.fn, Stage(s),
                 /\ cb.fn = "animate"
                 /\ s.animationActive
                 /\ timestamp - s.lastTimestamp >= Interval(s.version))
             EXCEPT !.stale = cb.stale,
                    !.elapsed = IF cb.fn = "animate"
                                THEN Rebase([ s EXCEPT !.clock = timestamp ]).clock
                                ELSE 0 ],
         LAMBDA event :
           With(RunCallback([ s EXCEPT !.lastEvent = event ], cb, timestamp),
                LAMBDA after :
                  [ after EXCEPT
                      !.rendered =
                         IF event.effective /\ after.lastEvent.drew # NoPrefix
                         THEN after.lastEvent.drew
                         ELSE @,
                      !.effectiveTicks =
                         IF event.effective /\ s.currentWordCharIndex < Len(s.wordToAnimate)
                         THEN @ + 1
                         ELSE @ ])))

\* The host starts an animation frame d ms after the last one: the callbacks
\* requested so far are the frame's callbacks, and the first of them is called.
Frame(d) ==
  /\ frameCallbacks = << >>
  /\ rafQueue # << >>
  /\ sinceSubmission # NotTimed => sinceSubmission + d <= MaxAge
  /\ Commit(CallCallback([ Cur EXCEPT !.clock = @ + d,
                                      !.frameCallbacks = Tail(rafQueue),
                                      !.rafQueue = << >> ],
                         Head(rafQueue), clock + d))
  /\ sinceSubmission' =
       (IF sinceSubmission = NotTimed THEN NotTimed ELSE sinceSubmission + d)
  /\ UNCHANGED << evaluated, extraGlyphs >>

\* The host calls the next callback of the running frame, with the same timestamp.
FrameNext ==
  /\ frameCallbacks # << >>
  /\ Commit(CallCallback([ Cur EXCEPT !.frameCallbacks = Tail(@) ],
                         Head(frameCallbacks), clock))
  /\ UNCHANGED << evaluated, extraGlyphs, sinceSubmission >>

Next ==
  \/ \E input \in Inputs : Click(input)
  \/ \E vp \in Viewports : Resize(vp)
  \/ \E d \in FrameDeltas : Frame(d)
  \/ FrameNext

Spec == Init /\ [][Next]_vars

-----------------------------------------------------------------------------
(* The pure functions, called on their own *)

\* The variables of the program, of its history and of its table.
programVars ==
  << version, wordToAnimate, currentWordCharIndex, processedPointsForCurrentChar,
     totalFramesForCurrentChar, currentFrame, animationActive, animationFrameId,
     completedCharacters, lastTimestamp, currentCanvasWidth, currentCanvasHeight,
     baseScale, wordScaleFactor, centerXOffsetPixels, centerYOffsetPixels,
     message, clock, rafQueue, frameCallbacks, canvas, lastEvent, rendered,
     effectiveTicks, lastFinished, sharedWithActive, extraGlyphs, sinceSubmission >>

\* The segments interpolateSegment is called with: those of the table of the
\* running program, both ways round, and segments of one point.
CallSegments ==
  UNION { { GlyphTable(version)[ch][k],
            << GlyphTable(version)[ch][k][2], GlyphTable(version)[ch][k][1] >>,
            << GlyphTable(version)[ch][k][1], GlyphTable(version)[ch][k][1] >> } :
          ch \in DOMAIN GlyphTable(version), k \in 1..2 }

\* The widths and heights of the canvas element that the scaling is computed for.
CallSizes == { 0, 1, 150, 300, 1000 }

\* interpolateSegment(segment, steps) is called.
CallInterpolateSegment ==
  /\ evaluated = NoCall
  /\ \E segment \in CallSegments, steps \in (1..MaxSteps) \cup { DEFAULT_STEPS } :
       evaluated' = [ fn |-> "interpolateSegment",
                      args |-> << segment, steps >>,
                      result |-> interpolateSegment(segment, steps) ]
  /\ UNCHANGED programVars

\* prepareAnimationForCharacter runs for a character whose entry in the table is the
\* first count segments of the character ch.
CallPrepare ==
  /\ evaluated = NoCall
  /\ \E ch \in DOMAIN GlyphTable(version) :
       \E count \in 1..Len(GlyphTable(version)[ch]) :
         evaluated' = [ fn |-> "prepareAnimationForCharacter",
                        args |-> << ch, count >>,
                        result |-> preparedFromSegments(
                                     SubSeq(GlyphTable(version)[ch], 1, count)) ]
  /\ UNCHANGED programVars

\* What updateCanvasDimensions leaves when the canvas element is clientWidth by
\* clientHeight and the word has wordLength characters.
ScalingOf(wordLength, clientWidth, clientHeight) ==
  With(updateCanvasDimensions(
         [ Cur EXCEPT !.wordToAnimate = [ i \in 1..wordLength |-> "A" ] ],
         clientWidth, clientHeight),
       LAMBDA s : [ currentCanvasWidth |-> s.currentCanvasWidth,
                    currentCanvasHeight |-> s.currentCanvasHeight,
                    baseScale |-> s.baseScale,
                    wordScaleFactor |-> s.wordScaleFactor,
                    centerXOffsetPixels |-> s.centerXOffsetPixels,
                    centerYOffsetPixels |-> s.centerYOffsetPixels ])

\* updateCanvasDimensions, and with it calculateWordScalingAndOffset, runs in
\* part_000 for a word of wordLength characters and for one of wordLength + 1.
CallScaling ==
  /\ evaluated = NoCall
  /\ version = "part_000"
  /\ \E wordLength \in 1..MaxWordLength, clientWidth \in CallSizes, clientHeight \in CallSizes :
       evaluated' = [ fn |-> "updateCanvasDimensions",
                      args |-> << wordLength, clientWidth, clientHeight >>,
                      result |-> << ScalingOf(wordLength, clientWidth, clientHeight),
                                    ScalingOf(wordLength + 1, clientWidth, clientHeight) >> ]
  /\ UNCHANGED programVars

\* The number that a coordinate of the table stands for.
DataCoordinate(c) == Rat(c, CoordDen)

\* transformPoint runs in part_000 when the scales are those of a word of
\* wordLength characters: for the start of a segment of the table in slot 0 and in
\* the last slot of the word, and for the end of the segment in slot 0.
CallTransformPoint ==
  /\ evaluated = NoCall
  /\ version = "part_000"
  /\ \E wordLength \in 2..(MaxWordLength + 1),
        clientWidth \in CallSizes, clientHeight \in CallSizes,
        ch \in DOMAIN GlyphTable(version), k \in 1..2 :
       LET s == updateCanvasDimensions(
                  [ Cur EXCEPT !.wordToAnimate = [ i \in 1..wordLength |-> "A" ] ],
                  clientWidth, clientHeight)
           start == GlyphTable(version)[ch][k][1]
           end == GlyphTable(version)[ch][k][2]
           slot == wordLength - 1
       IN evaluated' =
            [ fn |-> "transformPoint",
              args |-> << ScalingOf(wordLength, clientWidth, clientHeight),
                          << DataCoordinate(start[1]), DataCoordinate(start[2]) >>,
                          << DataCoordinate(end[1]), DataCoordinate(end[2]) >>,
                          slot >>,
              result |->
                << transformPoint(s, DataCoordinate(start[1]), DataCoordinate(start[2]),
                                  RInt(0)),
                   transformPoint(s, DataCoordinate(start[1]), DataCoordinate(start[2]),
                                  RInt(slot * CHAR_WIDTH_DATA_UNITS)),
                   transformPoint(s, DataCoordinate(end[1]), DataCoordinate(end[2]),
                                  RInt(0)) >> ]
  /\ UNCHANGED programVars

\* The characters of the texts that CallClick submits: white space, a character
\* of the table in lower case, and two characters that the table does not have.
CallCharacters == { " ", "a", "1", "g" }

\* The click listener runs in the state the program is in when it is loaded, the
\* text field holding value.
CallClick ==
  /\ evaluated = NoCall
  /\ \E value \in UNION { [ 1..n -> CallCharacters ] : n \in 0..MaxWordLength } :
       LET s == IF version = "script.js"
                THEN script_animateButtonClick(Cur, value)
                ELSE animateButtonClick(Cur, value)
       IN evaluated' =
            [ fn |-> "animateButtonClick",
              args |-> << value >>,
              result |-> << s.message, s.wordToAnimate >> ]
  /\ UNCHANGED programVars

\* The sizes of the canvas element that CallDrawPath takes: wide, tall, square,
\* and one pixel in one direction.
DrawViewports ==
  { << 300, 150 >>, << 150, 300 >>, << 150, 150 >>, << 1, 1000 >>, << 1000, 1 >> }

\* The number that a coordinate of a point of interpolateSegment stands for.
InterpolatedCoordinate(c) == Rat(c, CoordDen * DEFAULT_STEPS)

\* The loop of drawPath: the canvas coordinates that moveTo and lineTo are given
\* for the points of a path at xOffset.
pathPixels(s, points, xOffset) ==
  [ i \in 1..Len(points) |->
      IF s.version = "script.js"
      THEN script_transformPoint(s, InterpolatedCoordinate(points[i][1]),
                                 InterpolatedCoordinate(points[i][2]), RInt(xOffset))
      ELSE transformPoint(s, InterpolatedCoordinate(points[i][1]),
                          InterpolatedCoordinate(points[i][2]), RInt(xOffset)) ]

\* The scales that a submission of a word of wordLength characters leaves, the
\* canvas element of part_000 being vp[1] by vp[2].
Submitted(wordLength, vp) ==
  LET word == [ i \in 1..wordLength |-> "A" ]
  IN IF version = "script.js"
     THEN [ Cur EXCEPT !.wordToAnimate = word,
                       !.wordScaleFactor = script_wordScaleFactor(wordLength),
                       !.currentCanvasWidth = CANVAS_SIZE,
                       !.currentCanvasHeight = CANVAS_SIZE ]
     ELSE calculateWordScalingAndOffset(
            updateCanvasDimensions([ Cur EXCEPT !.wordToAnimate = word ], vp[1], vp[2]),
            word)

\* drawPath runs with the points of segment k of the character ch, at every place
\* of a word of wordLength characters.
CallDrawPath ==
  /\ evaluated = NoCall
  /\ \E wordLength \in 1..MaxWordLength,
        vp \in (IF version = "script.js" THEN { << CANVAS_SIZE, CANVAS_SIZE >> }
                ELSE DrawViewports),
        ch \in DOMAIN GlyphTable(version) :
       \E k \in 1..Len(GlyphTable(version)[ch]) :
         LET s == Submitted(wordLength, vp)
             points == interpolateSegment(GlyphTable(version)[ch][k], DEFAULT_STEPS)
         IN evaluated' =
              [ fn |-> "drawPath",
                args |-> << wordLength, vp, ch, k >>,
                result |->
                  [ place \in 1..wordLength |->
                      pathPixels(s, points, (place - 1) * CHAR_WIDTH_DATA_UNITS) ] ]
  /\ UNCHANGED programVars

\* One function is called, once, in the state the program is in when it is loaded.
FunctionNext ==
  \/ CallInterpolateSegment
  \/ CallPrepare
  \/ CallScaling
  \/ CallTransformPoint
  \/ CallClick

FunctionSpec == Init /\ [][FunctionNext]_vars

\* drawPath is called, once, after the program was loaded in a canvas of 300 by 150.
DrawInit ==
  Init /\ (version = "part_000" => currentCanvasWidth = 300 /\ currentCanvasHeight = 150)

DrawNext == CallDrawPath

DrawSpec == DrawInit /\ [][DrawNext]_vars

-----------------------------------------------------------------------------
(* The program with a glyph table that has a character without segments *)

\* The character that the table is extended with.
ExtendedGlyphs == { "Z" }

\* The texts the user submits to the program with the extended table.
ExtendedInputs == { << "Z" >>, << "Z", "a" >>, << "a", "Z" >> }

ExtendedInit == Load /\ extraGlyphs = ExtendedGlyphs /\ sinceSubmission = NotTimed

ExtendedNext ==
  \/ \E input \in ExtendedInputs : Click(input)
  \/ \E vp \in Viewports : Resize(vp)
  \/ \E d \in FrameDeltas : Frame(d)
  \/ FrameNext

ExtendedSpec == ExtendedInit /\ [][ExtendedNext]_vars

-----------------------------------------------------------------------------
(* part_000 with the time since the submission, and frames that come late *)

\* The texts the user submits.
TimedInputs == { << >>, << "a" >>, << "a", "b" >> }

\* Time that passes between two frames, in ms: less than an interval, an interval,
\* and two intervals and a half.
TimedDeltas == { 5, 10, 25 }

TimedInit ==
  Load /\ version = "part_000" /\ extraGlyphs = { } /\ sinceSubmission = 0

TimedNext ==
  \/ \E input \in TimedInputs : Click(input)
  \/ \E vp \in Viewports : Resize(vp)
  \/ \E d \in TimedDeltas : Frame(d)
  \/ FrameNext

TimedSpec == TimedInit /\ [][TimedNext]_vars

TypeOK ==
  /\ version \in { "part_000", "script.js" }
  /\ currentWordCharIndex \in Nat
  /\ currentFrame \in Nat
  /\ animationActive \in BOOLEAN
  /\ lastTimestamp = 0
  /\ clock \in 0..(2 * Interval(version) - 1)
  /\ Len(rafQueue) + Len(frameCallbacks) <= MaxPending + 1
  /\ sinceSubmission \in { NotTimed } \cup 0..MaxAge

-----------------------------------------------------------------------------
(* Properties *)

\* The animate callbacks that are still to be called.
PendingAnimate ==
  SelectSeq(frameCallbacks \o rafQueue, LAMBDA cb : cb.fn = "animate")

\* C1: in part_000, when a word with at least one supported character has been
\* submitted, in whatever state, the glyph index is 0, the cursor is 0, the
\* completed set is empty, the active point sequence is the compiled sequence of
\* the word's first character and the running flag is true.
C1_SubmissionResets ==
  (version = "part_000" /\ lastEvent.op = "click" /\ wordToAnimate # << >>) =>
    /\ currentWordCharIndex = 0
    /\ currentFrame = 0
    /\ completedCharacters = << >>
    /\ processedPointsForCurrentChar = CompiledPoints(version, wordToAnimate[1])
    /\ totalFramesForCurrentChar = Len(processedPointsForCurrentChar)
    /\ animationActive

\* A word has been submitted in part_000 just after a glyph of the previous, longer
\* word was promoted.
C1_Witness ==
  /\ version = "part_000"
  /\ lastEvent.op = "click"
  /\ lastEvent.pre = "promoted"
  /\ wordToAnimate = << "A" >>

\* C2: in part_000 at most one animate callback is pending at any time, none of the
\* pending animate callbacks was requested before the latest submission, and no
\* such callback has run.
C2_OneTickPending ==
  version = "part_000" =>
    /\ Len(PendingAnimate) <= 1
    /\ \A i \in 1..Len(PendingAnimate) : ~PendingAnimate[i].stale
    /\ ~lastEvent.stale

\* A word has been submitted in part_000 while the tick of the previous word was
\* pending, and one animate callback is pending.
C2_Witness ==
  /\ version = "part_000"
  /\ lastEvent.op = "click"
  /\ lastEvent.pre = "mid-glyph"
  /\ Len(PendingAnimate) = 1

\* C3: in script.js at most one animate callback is pending at any time, none of
\* the pending animate callbacks was requested before the latest submission, and
\* no such callback has run.
C3_OneTickPending ==
  version = "script.js" =>
    /\ Len(PendingAnimate) <= 1
    /\ \A i \in 1..Len(PendingAnimate) : ~PendingAnimate[i].stale
    /\ ~lastEvent.stale

\* C4: in part_000, whenever the running flag is true and the glyph index is below
\* the word length, the cursor is at least 0 and at most the last index of the
\* active point sequence.
C4_CursorInRange ==
  (version = "part_000" /\ animationActive /\ currentWordCharIndex < Len(wordToAnimate)) =>
    /\ 0 <= currentFrame
    /\ currentFrame <= Len(processedPointsForCurrentChar) - 1

\* The cursor of the second glyph of a word is at the last index of its sequence.
C4_Witness ==
  /\ version = "part_000"
  /\ animationActive
  /\ currentWordCharIndex = 1
  /\ currentWordCharIndex < Len(wordToAnimate)
  /\ currentFrame = Len(processedPointsForCurrentChar) - 1

\* The point sequence of the glyph the index is at: the sequence prepared for it,
\* or the one the next tick of script.js prepares when none is.
ActiveSequence ==
  IF processedPointsForCurrentChar # << >>
  THEN processedPointsForCurrentChar
  ELSE CompiledPoints(version, wordToAnimate[currentWordCharIndex + 1])

\* C5: in both versions the completed set is never longer than the word, its i-th
\* record holds the i-th character of the word and the offset 7 times (i - 1)
\* (positions counted from 1); and a step that is not a submission leaves the
\* completed set as it is or appends one record at its end.
C5_CompletedInWordOrder ==
  /\ [](/\ Len(completedCharacters) <= Len(wordToAnimate)
        /\ \A i \in 1..Len(completedCharacters) :
             /\ completedCharacters[i].char = wordToAnimate[i]
             /\ completedCharacters[i].xOffset = (i - 1) * 7)
  /\ [][lastEvent'.op # "click" =>
          \/ completedCharacters' = completedCharacters
          \/ /\ Len(completedCharacters') = Len(completedCharacters) + 1
             /\ SubSeq(completedCharacters', 1, Len(completedCharacters))
                  = completedCharacters]_vars

\* A tick has appended the record of the second character of a word.
C5_Witness ==
  /\ lastEvent.op = "animate"
  /\ Len(completedCharacters) = 2
  /\ completedCharacters[2].xOffset = 7

\* C6: in both versions an effective tick that finds the glyph index below the
\* word length increments the cursor and leaves the glyph index and the completed
\* set unchanged if the cursor is below the last index of the active sequence;
\* otherwise it appends one record for the active glyph to the completed set,
\* increments the glyph index and resets the cursor to 0.
C6_TickStep ==
  [][(/\ lastEvent'.op = "animate"
      /\ lastEvent'.effective
      /\ currentWordCharIndex < Len(wordToAnimate)) =>
       IF currentFrame < Len(ActiveSequence) - 1
       THEN /\ currentFrame' = currentFrame + 1
            /\ currentWordCharIndex' = currentWordCharIndex
            /\ completedCharacters' = completedCharacters
       ELSE /\ completedCharacters' =
                 Append(completedCharacters,
                        [ char |-> wordToAnimate[currentWordCharIndex + 1],
                          processedPoints |-> ActiveSequence,
                          xOffset |-> currentWordCharIndex * CHAR_WIDTH_DATA_UNITS ])
            /\ currentWordCharIndex' = currentWordCharIndex + 1
            /\ currentFrame' = 0]_vars

\* An effective tick has found the cursor of the first glyph at its last index and
\* promoted the glyph.
C6_Witness ==
  /\ lastEvent.op = "animate"
  /\ lastEvent.effective
  /\ lastEvent.pre = "mid-glyph"
  /\ currentWordCharIndex = 1
  /\ currentFrame = 0
  /\ Len(completedCharacters) = 1

\* C7: in both versions, when the glyph index equals the word length, no step
\* other than a submission changes the glyph index, the cursor or the completed set.
C7_FinishedIsTerminal ==
  [][(currentWordCharIndex = Len(wordToAnimate) /\ lastEvent'.op # "click") =>
       /\ currentWordCharIndex' = currentWordCharIndex
       /\ currentFrame' = currentFrame
       /\ completedCharacters' = completedCharacters]_vars

\* An effective tick has run on a word whose glyphs had all been promoted.
C7_Witness ==
  /\ lastEvent.op = "animate"
  /\ lastEvent.effective
  /\ lastEvent.pre = "finished"
  /\ currentWordCharIndex = Len(wordToAnimate)
  /\ Len(completedCharacters) = Len(wordToAnimate)

\* C8: in both versions, an effective tick that draws a prefix of the current
\* glyph draws either the prefix one point longer than the one the previous
\* effective tick of the word drew of the same glyph (the prefix of length 1 if
\* none was drawn since the submission), never longer than the glyph's sequence,
\* or the prefix of length 1 of the next glyph, and this only if the previous one
\* drew the whole sequence of its glyph and the glyph has been promoted.
C8_PrefixesInOrder ==
  [][(/\ lastEvent'.op = "animate"
      /\ lastEvent'.effective
      /\ lastEvent'.drew # NoPrefix) =>
       /\ rendered' = lastEvent'.drew
       /\ \/ /\ rendered'.glyph = rendered.glyph
             /\ rendered'.length = rendered.length + 1
             /\ rendered'.length
                  <= Len(CompiledPoints(version, wordToAnimate[rendered'.glyph + 1]))
          \/ /\ rendered'.glyph = rendered.glyph + 1
             /\ rendered'.length = 1
             /\ Len(completedCharacters) = rendered'.glyph
             /\ completedCharacters[rendered'.glyph].char = wordToAnimate[rendered'.glyph]
             /\ rendered.length
                  = Len(completedCharacters[rendered'.glyph].processedPoints)]_vars

\* An effective tick has drawn the first point of the second glyph of a word.
C8_Witness ==
  /\ lastEvent.op = "animate"
  /\ lastEvent.effective
  /\ lastEvent.drew = [ glyph |-> 1, length |-> 1 ]
  /\ rendered = lastEvent.drew

\* C9: in part_000 a resize leaves the word, the glyph index, the cursor, the active
\* point sequence, the completed set, the running flag and the status unchanged
\* and requests one redrawCanvasContent callback; and a redrawCanvasContent
\* callback leaves the word, the glyph index, the cursor, the active point
\* sequence, the completed set and the running flag unchanged.
C9_ResizeKeepsProgress ==
  /\ [][lastEvent'.op = "resize" =>
          /\ UNCHANGED << wordToAnimate, currentWordCharIndex, currentFrame,
                          processedPointsForCurrentChar, totalFramesForCurrentChar,
                          completedCharacters, animationActive, message,
                          lastTimestamp, clock >>
          /\ Len(rafQueue') = Len(rafQueue) + 1
          /\ SubSeq(rafQueue', 1, Len(rafQueue)) = rafQueue
          /\ rafQueue'[Len(rafQueue')].fn = "redrawCanvasContent"]_vars
  /\ [][lastEvent'.op = "redrawCanvasContent" =>
          UNCHANGED << wordToAnimate, currentWordCharIndex, currentFrame,
                       processedPointsForCurrentChar, totalFramesForCurrentChar,
                       completedCharacters, animationActive >>]_vars

\* The redraw that a resize during the animation of a glyph requested has drawn the
\* prefix of the glyph.
C9_Witness ==
  /\ version = "part_000"
  /\ lastEvent.op = "redrawCanvasContent"
  /\ lastEvent.pre = "mid-glyph"
  /\ animationActive
  /\ lastEvent.drew.length = currentFrame + 1

\* C10: in both versions, when a submission has left no supported character, the
\* running flag is false, the completed set is empty, the canvas is clear and the
\* status asks for supported characters; and while the word is empty no animate
\* callback changes the glyph index, the cursor or the completed set.
C10_EmptySubmission ==
  /\ []((lastEvent.op = "click" /\ wordToAnimate = << >>) =>
          /\ ~animationActive
          /\ completedCharacters = << >>
          /\ canvas = << >>
          /\ message = Msg("Please enter supported characters", << >>, << >>))
  /\ [][(wordToAnimate = << >> /\ lastEvent'.op = "animate") =>
          UNCHANGED << currentWordCharIndex, currentFrame, completedCharacters,
                       animationActive >>]_vars

\* A tick requested for a word has run after a submission without supported
\* characters, made while a glyph was being animated.
C10_Witness ==
  /\ lastEvent.op = "animate"
  /\ lastEvent.stale
  /\ wordToAnimate = << >>
  /\ ~animationActive
  /\ currentFrame > 0

\* The places of the text str whose character, in upper case, has an entry in the
\* glyph table.
SupportedPlaces(str) ==
  { k \in 1..Len(str) :
      (IF str[k] \in DOMAIN UpperOf THEN UpperOf[str[k]] ELSE str[k])
        \in DOMAIN GlyphTable(version) }

\* The text u is the text str without the white space at its two ends.
IsTrimOf(u, str) ==
  \E i, j \in 0..Len(str) :
    /\ i + j <= Len(str)
    /\ u = SubSeq(str, i + 1, Len(str) - j)
    /\ \A k \in 1..i : IsWhitespace(str[k])
    /\ \A k \in (Len(str) - j + 1)..Len(str) : IsWhitespace(str[k])
    /\ u # << >> => ~IsWhitespace(u[1]) /\ ~IsWhitespace(u[Len(u)])

\* C11: in both versions, right after a submission the word has one character for
\* each place of the trimmed input whose upper-case character has an entry in the
\* glyph table, in the order of the places, and that character is the upper-case
\* character of the place; and in every state every character of the word has an
\* entry in the glyph table.
C11_WordIsFilteredInput ==
  /\ lastEvent.op = "click" =>
        \E u \in { SubSeq(lastEvent.input, a, b) :
                     a \in 1..(Len(lastEvent.input) + 1), b \in 0..Len(lastEvent.input) } :
          /\ IsTrimOf(u, lastEvent.input)
          /\ Len(wordToAnimate) = Cardinality(SupportedPlaces(u))
          /\ \A i \in 1..Len(wordToAnimate) :
               \E k \in SupportedPlaces(u) :
                 /\ Cardinality({ j \in SupportedPlaces(u) : j <= k }) = i
                 /\ wordToAnimate[i] =
                      (IF u[k] \in DOMAIN UpperOf THEN UpperOf[u[k]] ELSE u[k])
  /\ \A i \in 1..Len(wordToAnimate) : wordToAnimate[i] \in DOMAIN GlyphTable(version)

\* The text " c1a" has been submitted and the word is "CA".
C11_Witness ==
  /\ lastEvent.op = "click"
  /\ lastEvent.input = << " ", "c", "1", "a" >>
  /\ wordToAnimate = << "C", "A" >>

\* C12: in part_000, when a word whose animation is finished is submitted again,
\* the submission leaves glyph index 0 and cursor 0, and when the animation is
\* finished again the completed characters are those of the first run: the same
\* characters, point sequences and offsets in the same order.
C12_ResubmissionReproduces ==
  (version = "part_000" /\ lastFinished # NoRun) =>
    /\ wordToAnimate = lastFinished.word
    /\ lastEvent.op = "click" => currentWordCharIndex = 0 /\ currentFrame = 0
    /\ currentWordCharIndex = Len(wordToAnimate) =>
          completedCharacters = lastFinished.completed

\* The animation of a word of two characters, submitted again after it had
\* finished, has finished again.
C12_Witness ==
  /\ version = "part_000"
  /\ lastFinished # NoRun
  /\ lastEvent.op = "animate"
  /\ currentWordCharIndex = Len(wordToAnimate)
  /\ Len(completedCharacters) = 2
  /\ completedCharacters[1].char # completedCharacters[2].char

\* The number of points of the compiled sequences of the characters of word.
RECURSIVE TotalPoints(_, _)
TotalPoints(v, word) ==
  IF word = << >> THEN 0
  ELSE Len(CompiledPoints(v, Head(word))) + TotalPoints(v, Tail(word))

\* C13: in both versions, if animate callbacks keep being called, a state in which
\* a character of the word is still to be animated leads to a state in which the
\* glyph index is the word length, unless a word is submitted before; while a
\* character is still to be animated the animation is running and an animate
\* callback is pending; and whenever the index is the word length, the
\* completed-set has one record per character of the word and the effective ticks
\* that animated the word are as many as the points of the compiled sequences of
\* its characters.
C13_AnimationFinishes ==
  /\ []((wordToAnimate # << >> /\ currentWordCharIndex = Len(wordToAnimate)) =>
          /\ Len(completedCharacters) = Len(wordToAnimate)
          /\ effectiveTicks = TotalPoints(version, wordToAnimate))
  /\ []((wordToAnimate # << >> /\ currentWordCharIndex < Len(wordToAnimate)) =>
          /\ animationActive
          /\ Len(PendingAnimate) >= 1)
  /\ ([]<><<lastEvent'.op = "animate">>_vars) =>
       ((/\ wordToAnimate # << >>
         /\ currentWordCharIndex < Len(wordToAnimate)
         /\ lastEvent.op # "click")
          ~> (\/ (wordToAnimate # << >> /\ currentWordCharIndex = Len(wordToAnimate))
              \/ lastEvent.op = "click"))

\* The tick that finished a word of two characters.
C13_Witness ==
  /\ lastEvent.op = "animate"
  /\ lastEvent.pre = "mid-glyph"
  /\ currentWordCharIndex = Len(wordToAnimate)
  /\ Len(completedCharacters) = 2
  /\ effectiveTicks = 2 * (DEFAULT_STEPS + 1)

JoinsUpTo(segs, k) ==
  Cardinality({ j \in 2..k : segs[j][1] = segs[j - 1][2] })

\* C15: for the first count segments of every glyph of the table, the sequence
\* prepareAnimationForCharacter builds has 21 points per segment less one for every
\* segment that starts where the segment before it ends (the last point emitted
\* before it); the 21 points of every segment, in order, end at the place that
\* this count gives for the segment; and totalFramesForCurrentChar is the length
\* of the sequence.
C15_PreparedLength ==
  evaluated.fn = "prepareAnimationForCharacter" =>
    LET segs == SubSeq(GlyphTable(version)[evaluated.args[1]], 1, evaluated.args[2])
        points == evaluated.result.processedPointsForCurrentChar
        EndOf(k) == k * (DEFAULT_STEPS + 1) - JoinsUpTo(segs, k)
    IN /\ Len(points) = EndOf(Len(segs))
       /\ evaluated.result.totalFramesForCurrentChar = Len(points)
       /\ \A k \in 1..Len(segs) :
            SubSeq(points, EndOf(k) - DEFAULT_STEPS, EndOf(k))
              = interpolateSegment(segs[k], DEFAULT_STEPS)

\* prepareAnimationForCharacter has run for a whole glyph of more than two
\* segments, one of which starts where the segment before it ends.
C15_Witness ==
  /\ evaluated.fn = "prepareAnimationForCharacter"
  /\ evaluated.args[2] = Len(GlyphTable(version)[evaluated.args[1]])
  /\ evaluated.args[2] > 2
  /\ evaluated.result.totalFramesForCurrentChar
       < evaluated.args[2] * (DEFAULT_STEPS + 1)

\* C16: in part_000 wordScaleFactor is at most 1 in every reachable state, and
\* it is greater than 0 whenever both dimensions of the viewport are positive.
C16_WordScaleFactorRange ==
  version = "part_000" =>
    /\ IsFinite(wordScaleFactor)
    /\ RLeq(wordScaleFactor, RInt(1))
    /\ (currentCanvasWidth > 0 /\ currentCanvasHeight > 0) =>
         RLess(RInt(0), wordScaleFactor)

\* A two-character word has been scaled down to fit a positive viewport.
C16_Witness ==
  /\ version = "part_000"
  /\ Len(wordToAnimate) = 2
  /\ currentCanvasWidth > 0 /\ currentCanvasHeight > 0
  /\ RLess(wordScaleFactor, RInt(1))
  /\ RLess(RInt(0), wordScaleFactor)

\* C17 as stated: for a viewport with positive dimensions, wordScaleFactor for
\* n + 1 characters is strictly smaller than for n characters exactly when
\* (n + 1) * 7 * baseScale exceeds the viewport width, and equal otherwise.
C17_DecreasesExactlyWhenTooWide ==
  (/\ evaluated.fn = "updateCanvasDimensions"
   /\ evaluated.args[2] > 0 /\ evaluated.args[3] > 0) =>
    LET n == evaluated.args[1]
        shorter == evaluated.result[1]
        longer == evaluated.result[2]
        tooWide ==
          RLess(RInt(evaluated.args[2]),
                RMul(RInt((n + 1) * CHAR_WIDTH_DATA_UNITS), longer.baseScale))
    IN /\ RLess(longer.wordScaleFactor, shorter.wordScaleFactor) <=> tooWide
       /\ ~tooWide => longer.wordScaleFactor = shorter.wordScaleFactor

\* C17: for a viewport with positive dimensions, wordScaleFactor for n + 1
\* characters is never larger than for n characters; it is strictly smaller
\* exactly when (n + 1) * 7 * baseScale exceeds the viewport width and
\* (width / ((n + 1) * 7 * baseScale)) * 0.95 is below wordScaleFactor for n
\* characters, and equal otherwise.
C17_DecreasesWhenWidthDecides ==
  (/\ evaluated.fn = "updateCanvasDimensions"
   /\ evaluated.args[2] > 0 /\ evaluated.args[3] > 0) =>
    LET n == evaluated.args[1]
        shorter == evaluated.result[1]
        longer == evaluated.result[2]
        width == RInt(evaluated.args[2])
        baseScaledPixelWidth ==
          RMul(RInt((n + 1) * CHAR_WIDTH_DATA_UNITS), longer.baseScale)
        widthDecides ==
          /\ RLess(width, baseScaledPixelWidth)
          /\ RLess(RMul(RDiv(width, baseScaledPixelWidth), FIT_MARGIN),
                   shorter.wordScaleFactor)
    IN /\ longer.baseScale = shorter.baseScale
       /\ RLeq(longer.wordScaleFactor, shorter.wordScaleFactor)
       /\ RLess(longer.wordScaleFactor, shorter.wordScaleFactor) <=> widthDecides
       /\ ~widthDecides => longer.wordScaleFactor = shorter.wordScaleFactor

\* The scale has been computed for n and n + 1 characters in a viewport that is
\* narrower than it is high, and the longer word has the smaller factor.
C17_Witness ==
  /\ evaluated.fn = "updateCanvasDimensions"
  /\ 0 < evaluated.args[2] /\ evaluated.args[2] < evaluated.args[3]
  /\ RLess(evaluated.result[2].wordScaleFactor, evaluated.result[1].wordScaleFactor)

\* The width and height of the block of wordLength characters at the scales of
\* the record scaling: << finalScaledPixelWidth, finalScaledPixelHeight >>.
FinalScaledPixels(wordLength, scaling) ==
  << RMul(RMul(RInt(wordLength * CHAR_WIDTH_DATA_UNITS), scaling.baseScale),
          scaling.wordScaleFactor),
     RMul(RMul(DATA_RANGE_Y, scaling.baseScale), scaling.wordScaleFactor) >>

\* C18: after calculateWordScalingAndOffset for a non-empty word and any
\* viewport, twice centerXOffsetPixels plus the final width of the block is the
\* viewport width and twice centerYOffsetPixels plus its final height is the
\* viewport height, the final dimensions being the base-scaled ones times
\* wordScaleFactor.
C18_BlockIsCentered ==
  evaluated.fn = "updateCanvasDimensions" =>
    \A i \in 1..2 :
      LET scaling == evaluated.result[i]
          final == FinalScaledPixels(evaluated.args[1] + i - 1, scaling)
      IN /\ scaling.currentCanvasWidth = evaluated.args[2]
         /\ scaling.currentCanvasHeight = evaluated.args[3]
         /\ RAdd(RMul(RInt(2), scaling.centerXOffsetPixels), final[1])
              = RInt(evaluated.args[2])
         /\ RAdd(RMul(RInt(2), scaling.centerYOffsetPixels), final[2])
              = RInt(evaluated.args[3])

\* The scale has been computed for a word that is scaled down and leaves free
\* space on both axes.
C18_Witness ==
  /\ evaluated.fn = "updateCanvasDimensions"
  /\ RLess(evaluated.result[1].wordScaleFactor, RInt(1))
  /\ RLess(RInt(0), evaluated.result[1].centerXOffsetPixels)
  /\ RLess(RInt(0), evaluated.result[1].centerYOffsetPixels)

\* C19: for a word of n >= 1 characters and a viewport with positive width and
\* height, the final block fits on both axes, n * 7 * baseScale *
\* wordScaleFactor <= width and 10.5 * baseScale * wordScaleFactor <= height,
\* and both centering offsets are non-negative.
C19_BlockFitsViewport ==
  (/\ evaluated.fn = "updateCanvasDimensions"
   /\ evaluated.args[2] > 0 /\ evaluated.args[3] > 0) =>
    \A i \in 1..2 :
      LET scaling == evaluated.result[i]
          final == FinalScaledPixels(evaluated.args[1] + i - 1, scaling)
      IN /\ RLess(RInt(0), scaling.baseScale)
         /\ RLeq(final[1], RInt(evaluated.args[2]))
         /\ RLeq(final[2], RInt(evaluated.args[3]))
         /\ RLeq(RInt(0), scaling.centerXOffsetPixels)
         /\ RLeq(RInt(0), scaling.centerYOffsetPixels)

\* The scale has been computed for a word whose block at base scale is wider
\* than the viewport and, separately, higher than it.
C19_Witness ==
  /\ evaluated.fn = "updateCanvasDimensions"
  /\ evaluated.args[2] > 0 /\ evaluated.args[3] > 0
  /\ RLess(RInt(evaluated.args[2]),
           RMul(RInt(evaluated.args[1] * CHAR_WIDTH_DATA_UNITS),
                evaluated.result[1].baseScale))
  /\ RLess(RInt(evaluated.args[3]),
           RMul(DATA_RANGE_Y, evaluated.result[1].baseScale))

\* The canvas has no width or no height.
EmptyViewport == currentCanvasWidth = 0 \/ currentCanvasHeight = 0

\* C20: in part_000, when the width or the height of the viewport is 0,
\* baseScale is 0 and no quotient of updateCanvasDimensions or
\* calculateWordScalingAndOffset has a zero divisor, so the scale factor and
\* the offsets are finite numbers (as they are in every viewport); the tick
\* loop stays scheduled while a word is being animated, every effective tick
\* advances the animation, and if ticks keep arriving the word is finished
\* with one record per character.
C20_EmptyViewport ==
  /\ [](version = "part_000" =>
         /\ IsFinite(baseScale) /\ IsFinite(wordScaleFactor)
         /\ IsFinite(centerXOffsetPixels) /\ IsFinite(centerYOffsetPixels)
         /\ EmptyViewport =>
              /\ baseScale = RInt(0)
              /\ wordScaleFactor = RInt(1)
              /\ wordToAnimate # << >> =>
                   /\ centerXOffsetPixels = Rat(currentCanvasWidth, 2)
                   /\ centerYOffsetPixels = Rat(currentCanvasHeight, 2)
              /\ currentWordCharIndex < Len(wordToAnimate) =>
                   animationActive /\ Len(PendingAnimate) = 1
              /\ (wordToAnimate # << >>
                    /\ currentWordCharIndex = Len(wordToAnimate)) =>
                   Len(completedCharacters) = Len(wordToAnimate))
  /\ [][(/\ version = "part_000"
         /\ EmptyViewport
         /\ lastEvent'.op = "animate"
         /\ lastEvent'.effective
         /\ currentWordCharIndex < Len(wordToAnimate)) =>
          \/ /\ currentFrame' = currentFrame + 1
             /\ currentWordCharIndex' = currentWordCharIndex
          \/ /\ currentFrame' = 0
             /\ currentWordCharIndex' = currentWordCharIndex + 1]_vars
  /\ ([]<><<lastEvent'.op = "animate">>_vars) =>
       ((/\ version = "part_000"
         /\ EmptyViewport
         /\ currentWordCharIndex < Len(wordToAnimate)
         /\ lastEvent.op = "animate")
          ~> (\/ (wordToAnimate # << >>
                    /\ currentWordCharIndex = Len(wordToAnimate))
              \/ lastEvent.op \in { "click", "resize" }))

\* A word of two characters has been animated to its end on a canvas without
\* width.
C20_Witness ==
  /\ version = "part_000"
  /\ currentCanvasWidth = 0
  /\ baseScale = RInt(0)
  /\ lastEvent.op = "animate"
  /\ Len(wordToAnimate) = 2
  /\ currentWordCharIndex = 2
  /\ Len(completedCharacters) = 2
  /\ effectiveTicks = TotalPoints(version, wordToAnimate)

\* C21: in part_000 transformPoint(x, y, off) returns
\* pixelX = (x + off - X_MIN) * baseScale * wordScaleFactor + centerXOffsetPixels and
\* pixelY = height - ((y - Y_MIN) * baseScale * wordScaleFactor + centerYOffsetPixels);
\* a point in slot k is the point in slot 0 moved to the right by
\* k * 7 * baseScale * wordScaleFactor pixels with the same pixelY, and a larger y
\* gives a smaller or equal pixelY.
C21_TransformPoint ==
  evaluated.fn = "transformPoint" =>
    LET scaling == evaluated.args[1]
        start == evaluated.args[2]
        end == evaluated.args[3]
        slot == evaluated.args[4]
        scale == RMul(scaling.baseScale, scaling.wordScaleFactor)
        inSlot0 == evaluated.result[1]
        inSlot == evaluated.result[2]
        endInSlot0 == evaluated.result[3]
    IN /\ inSlot.x = RAdd(RMul(RSub(RAdd(start[1], RInt(slot * CHAR_WIDTH_DATA_UNITS)),
                                    X_MIN), scale),
                          scaling.centerXOffsetPixels)
       /\ inSlot.y = RSub(RInt(scaling.currentCanvasHeight),
                          RAdd(RMul(RSub(start[2], Y_MIN), scale),
                               scaling.centerYOffsetPixels))
       /\ RSub(inSlot.x, inSlot0.x) = RMul(RInt(slot * CHAR_WIDTH_DATA_UNITS), scale)
       /\ inSlot.y = inSlot0.y
       /\ RLeq(start[2], end[2]) => RLeq(endInSlot0.y, inSlot0.y)
       /\ RLeq(end[2], start[2]) => RLeq(inSlot0.y, endInSlot0.y)

\* transformPoint has run, at a scale that is not 0, for the two ends of a segment
\* that rises, the lower one in slot 0 and in a slot further right.
C21_Witness ==
  /\ evaluated.fn = "transformPoint"
  /\ evaluated.args[4] >= 2
  /\ RLess(RInt(0), evaluated.args[1].baseScale)
  /\ RLess(evaluated.args[1].wordScaleFactor, RInt(1))
  /\ RLess(evaluated.args[2][2], evaluated.args[3][2])
  /\ RLess(evaluated.result[3].y, evaluated.result[1].y)
  /\ RLess(evaluated.result[1].x, evaluated.result[2].x)

\* The character that is to be animated has an entry without segments in the table.
ActiveGlyphIsEmpty ==
  /\ currentWordCharIndex < Len(wordToAnimate)
  /\ wordToAnimate[currentWordCharIndex + 1] \in extraGlyphs

\* C22: when the table has a character whose compiled sequence is empty and a
\* word with that character is animated, the first effective tick that finds the
\* character active moves the glyph index past it and leaves the cursor at 0,
\* nothing is ever drawn in the slot of such a character, and if ticks keep
\* arriving the word is animated to its end.
C22_EmptyGlyphIsSkipped ==
  /\ [][(/\ ActiveGlyphIsEmpty
         /\ lastEvent'.op = "animate"
         /\ lastEvent'.effective) =>
          /\ currentWordCharIndex' = currentWordCharIndex + 1
          /\ currentFrame' = 0
          /\ lastEvent'.drew.length = 0]_vars
  /\ [](/\ ActiveGlyphIsEmpty => processedPointsForCurrentChar = << >> /\ currentFrame = 0
        /\ \A i \in 1..Len(canvas) :
             /\ canvas[i].xOffset \in
                  { (k - 1) * CHAR_WIDTH_DATA_UNITS : k \in 1..Len(wordToAnimate) }
             /\ wordToAnimate[(canvas[i].xOffset \div CHAR_WIDTH_DATA_UNITS) + 1]
                  \notin extraGlyphs
        /\ (wordToAnimate # << >> /\ currentWordCharIndex < Len(wordToAnimate)) =>
             animationActive /\ Len(PendingAnimate) >= 1)
  /\ ([]<><<lastEvent'.op = "animate">>_vars) =>
       ((wordToAnimate # << >> /\ currentWordCharIndex < Len(wordToAnimate)
           /\ lastEvent.op # "click")
          ~> (\/ (wordToAnimate # << >>
                    /\ currentWordCharIndex = Len(wordToAnimate))
              \/ lastEvent.op = "click"))

\* The word "ZA", whose first character has no segments, has been animated to its
\* end and the stroke of its second character is on the canvas.
C22_Witness ==
  /\ extraGlyphs # { }
  /\ wordToAnimate = << "Z", "A" >>
  /\ currentWordCharIndex = 2
  /\ lastEvent.op = "animate"
  /\ Len(canvas) = 1
  /\ canvas[1].xOffset = CHAR_WIDTH_DATA_UNITS

\* C23: in both versions every completed record holds the whole compiled
\* sequence of its character and shares its array with no later active sequence;
\* a step that is not a submission leaves every record that exists as it is, and
\* a submission empties the completed set.
C23_CompletedRecordsImmutable ==
  /\ [](/\ sharedWithActive = { }
        /\ \A i \in 1..Len(completedCharacters) :
             completedCharacters[i].processedPoints
               = CompiledPoints(version, completedCharacters[i].char))
  /\ [][IF lastEvent'.op = "click"
        THEN completedCharacters' = << >>
        ELSE \A i \in 1..Len(completedCharacters) :
               /\ i <= Len(completedCharacters')
               /\ completedCharacters'[i] = completedCharacters[i]]_vars

\* The first character of a word is completed and the second, which was prepared
\* after the record was appended, has been animated to its last point.
C23_Witness ==
  /\ Len(completedCharacters) = 1
  /\ currentWordCharIndex = 1
  /\ Len(wordToAnimate) = 2
  /\ wordToAnimate[1] # wordToAnimate[2]
  /\ currentFrame = totalFramesForCurrentChar - 1
  /\ processedPointsForCurrentChar # completedCharacters[1].processedPoints
  /\ lastEvent.op = "animate"

\* The strokes of the paths, for those of at least two points.
StrokesOf(paths) ==
  SelectSeq(paths, LAMBDA path : Len(path.points) >= 2)

\* C24: in part_000 the canvas that an effective tick leaves shows, for the state
\* the tick found, the whole point sequence of every completed record, in the
\* order of the completed set and at the record's offset, and after them the
\* first cursor + 1 points of the active sequence at offset 7 times the glyph
\* index, or no active part if no glyph is active; a sequence of fewer than two
\* points gives no stroke.
C24_RenderOfTick ==
  [][(/\ version = "part_000"
      /\ lastEvent'.op = "animate"
      /\ lastEvent'.effective) =>
       canvas' =
         StrokesOf(
           [ i \in 1..Len(completedCharacters) |->
               [ points |-> completedCharacters[i].processedPoints,
                 xOffset |-> completedCharacters[i].xOffset ] ]
           \o (IF animationActive /\ currentWordCharIndex < Len(wordToAnimate)
               THEN << [ points |-> SubSeq(processedPointsForCurrentChar, 1,
                                           currentFrame + 1),
                         xOffset |-> currentWordCharIndex * 7 ] >>
               ELSE << >>))]_vars

\* An effective tick of part_000 has drawn a completed character and a part of
\* the next one.
C24_Witness ==
  /\ version = "part_000"
  /\ lastEvent.op = "animate"
  /\ lastEvent.effective
  /\ Len(canvas) = 2
  /\ canvas[1].xOffset = 0
  /\ canvas[2].xOffset = 7
  /\ Len(canvas[2].points) < Len(canvas[1].points)

\* The variables of the animation.
AnimationState ==
  << wordToAnimate, currentWordCharIndex, currentFrame, processedPointsForCurrentChar,
     totalFramesForCurrentChar, completedCharacters, sharedWithActive, animationActive,
     message >>

C26_StatusMatchesProgress ==
  /\ (message.kind = "Animation finished") <=>
        (wordToAnimate # << >> /\ currentWordCharIndex = Len(wordToAnimate))
  /\ (message.kind = "Animation finished") =>
        /\ message.word = wordToAnimate
        /\ Len(completedCharacters) = Len(wordToAnimate)
  /\ (message.kind \in { "Stitching current char", "Animating current char" }) =>
        /\ currentWordCharIndex < Len(wordToAnimate)
        /\ message.word = wordToAnimate
        /\ message.detail = << wordToAnimate[currentWordCharIndex + 1] >>

\* The second character of a two-character word is being animated under the
\* current-character status.
C26_Witness ==
  /\ message.kind \in { "Stitching current char", "Animating current char" }
  /\ Len(wordToAnimate) = 2
  /\ currentWordCharIndex = 1
  /\ currentFrame > 0

\* The character of place k of the text str, in upper case.
UpperAt(str, k) == IF str[k] \in DOMAIN UpperOf THEN UpperOf[str[k]] ELSE str[k]

\* The places of the text str whose character, in upper case, has no entry in the
\* glyph table.
UnsupportedPlaces(str) ==
  { k \in 1..Len(str) : UpperAt(str, k) \notin DOMAIN GlyphTable(version) }

\* C27: in both versions, after the submission of a text that, trimmed and in
\* upper case, has a character of the table and a character that the table does
\* not have, the status is the warning, and the warning names the characters
\* that the table does not have, one for each place and in the order of the
\* places, and the word; after the submission of a text that has a character of
\* the table and no other character, the status is the plain message of the
\* version with the word.
C27_WarningNamesUnsupported ==
  evaluated.fn = "animateButtonClick" =>
    \E u \in { SubSeq(evaluated.args[1], a, b) :
                 a \in 1..(Len(evaluated.args[1]) + 1), b \in 0..Len(evaluated.args[1]) } :
      /\ IsTrimOf(u, evaluated.args[1])
      /\ SupportedPlaces(u) # { } =>
           LET status == evaluated.result[1]
               word == evaluated.result[2]
           IN /\ status.word = word
              /\ Len(word) = Cardinality(SupportedPlaces(u))
              /\ IF UnsupportedPlaces(u) # { }
                 THEN /\ status.kind = "Warning not defined"
                      /\ Len(status.detail) = Cardinality(UnsupportedPlaces(u))
                      /\ \A k \in UnsupportedPlaces(u) :
                           status.detail[Cardinality({ j \in UnsupportedPlaces(u) : j <= k })]
                             = UpperAt(u, k)
                 ELSE /\ status.kind =
                           (IF version = "script.js" THEN "Animating" ELSE "Stitching")
                      /\ status.detail = << >>

\* The text " ga1" has been submitted: the warning names G and 1, and the word
\* is "A".
C27_Witness ==
  /\ evaluated.fn = "animateButtonClick"
  /\ evaluated.args = << << " ", "g", "a", "1" >> >>
  /\ evaluated.result[1] = Msg("Warning not defined", << "A" >>, << "G", "1" >>)

\* C28: in part_000, with timestamps that are whole numbers of ms, while a word
\* is submitted the number of effective steps since the submission is at most
\* the number of whole intervals that have passed since the submission; the
\* time from the submission to lastTimestamp is a whole number of intervals;
\* lastTimestamp is not later than the time of the latest frame; and an
\* effective tick leaves less than an interval between lastTimestamp and its
\* own timestamp, however late it came.
C28_StepsBoundedByTime ==
  (version = "part_000" /\ sinceSubmission # NotTimed /\ wordToAnimate # << >>) =>
    /\ effectiveTicks <= sinceSubmission \div ANIMATION_INTERVAL_MS
    /\ (sinceSubmission - (clock - lastTimestamp)) % ANIMATION_INTERVAL_MS = 0
    /\ lastTimestamp <= clock
    /\ (lastEvent.op = "animate" /\ lastEvent.effective) =>
          clock - lastTimestamp < ANIMATION_INTERVAL_MS

\* 35 ms after the submission, the first frame having come after 25 ms, two
\* effective steps have been made, and 5 ms are carried over.
C28_Witness ==
  /\ version = "part_000"
  /\ sinceSubmission = 35
  /\ effectiveTicks = 2
  /\ lastEvent.op = "animate"
  /\ lastEvent.effective
  /\ clock - lastTimestamp = 5

\* C29: in script.js, of the animate callbacks that the host calls in one frame,
\* with the same timestamp, only the first can advance the animation: every
\* later callback of the frame is not effective and leaves the animation, the
\* canvas and lastTimestamp as they are, and, the animation running, it finds
\* less than the interval elapsed and requests itself again. So a frame makes at
\* most one step, however many callbacks repeated submissions have left pending.
C29_OneStepPerFrame ==
  [][(version = "script.js" /\ frameCallbacks # << >>) =>
       /\ lastEvent'.op = "animate"
       /\ ~lastEvent'.effective
       /\ AnimationState' = AnimationState
       /\ canvas' = canvas
       /\ clock' - lastTimestamp' = clock - lastTimestamp
       /\ animationActive =>
            /\ lastEvent'.elapsed < script_ANIMATION_INTERVAL_MS
            /\ Len(frameCallbacks' \o rafQueue') = Len(frameCallbacks \o rafQueue)
            /\ rafQueue'[Len(rafQueue')].fn = "animate"]_vars

\* In script.js a callback left pending by an earlier submission has been called
\* in the frame in which another callback had already made the step: it found no
\* time elapsed, and two callbacks are requested for the next frame.
C29_Witness ==
  /\ version = "script.js"
  /\ lastEvent.op = "animate"
  /\ ~lastEvent.effective
  /\ lastEvent.elapsed = 0
  /\ animationActive
  /\ currentFrame > 0
  /\ Len(rafQueue) >= 2

\* C30: in both versions, in every state in which the word is not empty, the
\* number of completed records equals the index of the current character: 0
\* right after a submission, and the length of the word when it is finished.
C30_CompletedCountIsIndex ==
  wordToAnimate # << >> =>
    /\ Len(completedCharacters) = currentWordCharIndex
    /\ currentWordCharIndex <= Len(wordToAnimate)
    /\ lastEvent.op = "click" => currentWordCharIndex = 0

\* The first character of a two-character word has been completed and the
\* second is being animated: one record, index 1.
C30_Witness ==
  /\ Len(wordToAnimate) = 2
  /\ lastEvent.op # "click"
  /\ currentWordCharIndex = 1
  /\ Len(completedCharacters) = 1
  /\ currentFrame > 0

\* C31: in part_000, in every state, animationActive is true exactly when the
\* word is not empty and the index of the current character is below the word's
\* length, and an animate callback is pending exactly when animationActive is
\* true: a running animation always has its next tick requested, and no tick
\* stays requested when the animation has finished or an empty submission has
\* taken its place.
C31_RunningIffTickPending ==
  version = "part_000" =>
    /\ animationActive <=>
          (wordToAnimate # << >> /\ currentWordCharIndex < Len(wordToAnimate))
    /\ (PendingAnimate # << >>) <=> animationActive

\* In part_000 the last tick of a word has run: the animation is not active and
\* no animate callback is pending, while a redraw requested by a resize is.
C31_Witness ==
  /\ version = "part_000"
  /\ lastEvent.op = "animate"
  /\ lastEvent.effective
  /\ wordToAnimate # << >>
  /\ currentWordCharIndex = Len(wordToAnimate)
  /\ ~animationActive
  /\ PendingAnimate = << >>
  /\ frameCallbacks \o rafQueue # << >>

\* C32: in part_000, in every state, if the word is not empty then
\* wordScaleFactor, centerXOffsetPixels and centerYOffsetPixels are what
\* calculateWordScalingAndOffset gives for the word, the cached canvas width and
\* height and baseScale, and if the word is empty they are 1, 0 and 0.
C32_FitNeverStale ==
  version = "part_000" =>
    << wordScaleFactor, centerXOffsetPixels, centerYOffsetPixels >> =
      (IF wordToAnimate # << >>
       THEN WordFit(Len(wordToAnimate), currentCanvasWidth, currentCanvasHeight, baseScale)
       ELSE << RInt(1), RInt(0), RInt(0) >>)

\* In part_000 the canvas has been resized to 150 by 300 while a two-character
\* word was being animated, and the word has been scaled down to fit.
C32_Witness ==
  /\ version = "part_000"
  /\ lastEvent.op = "resize"
  /\ Len(wordToAnimate) = 2
  /\ currentFrame > 0
  /\ currentCanvasWidth = 150
  /\ wordScaleFactor # RInt(1)

\* C33: in both versions, for every word of 1..MaxWordLength characters and, in
\* part_000, every canvas of positive width and height, every point that
\* drawPath gives to the drawing surface, for every segment of every character
\* of the table, every place of the word and every point of the segment, is
\* inside the canvas: 0 <= x <= canvas width and 0 <= y <= canvas height.
C33_PointsInsideCanvas ==
  evaluated.fn = "drawPath" =>
    \A place \in 1..Len(evaluated.result) :
      \A i \in 1..Len(evaluated.result[place]) :
        LET pixel == evaluated.result[place][i]
            viewport == evaluated.args[2]
        IN /\ RLeq(RInt(0), pixel.x)
           /\ RLeq(pixel.x, RInt(viewport[1]))
           /\ RLeq(RInt(0), pixel.y)
           /\ RLeq(pixel.y, RInt(viewport[2]))

\* drawPath has run in script.js for the last segment of "B" in a word of two
\* characters: the word is scaled down, and the points of the second place are
\* to the right of those of the first.
C33_Witness ==
  /\ version = "script.js"
  /\ evaluated.fn = "drawPath"
  /\ evaluated.args[1] = 2
  /\ evaluated.args[3] = "B"
  /\ evaluated.args[4] = Len(GlyphTable(version)["B"])
  /\ Len(evaluated.result[2]) = DEFAULT_STEPS + 1
  /\ RLess(evaluated.result[1][1].x, evaluated.result[2][1].x)

====
